---------------------------- MODULE Spec2Model ----------------------------
(***************************************************************************)
(* A model of the concurrent monitoring core of slurm_monitor:             *)
(*   - JobManager.get_job_status      (job_manager.py)  status mapping     *)
(*   - StatusMonitor                  (status_monitor.py) polling loop     *)
(*   - LogFileHandler / LogTailer     (log_tailer.py)   offset reader      *)
(*   - MonitorUI                      (ui_renderer.py)  dashboard state    *)
(*   - MonitorController              (cli.py)          wiring             *)
(* Each component has a specification of its own, in which its clients are *)
(* arbitrary; Spec is the assembled program, wired by the controller.      *)
(***************************************************************************)
EXTENDS Integers, Sequences, FiniteSets, TLC

(***************************************************************************)
(* Bounds of the model.                                                    *)
(***************************************************************************)
\* Lines of one sacct answer (the job line and its step lines).
MaxSacctLines == 2

\* The value Python's None / a missing dictionary key is modelled by.
None == "<none>"

SeqsUpTo(S, n) == UNION {[1..k -> S] : k \in 0..n}

Max(a, b) == IF a >= b THEN a ELSE b

Min(a, b) == IF a <= b THEN a ELSE b

(***************************************************************************)
(* JobManager.get_job_status: the Scheduler Client's status mapping.       *)
(* The text a scheduler command prints is a sequence of lines; a line is   *)
(* one of the state texts below ("" is a blank line).                      *)
(***************************************************************************)
JobStatus == {"QUEUED", "RUNNING", "COMPLETED", "FAILED", "UNKNOWN"}

\* What `squeue -h -o %T` can print for one job.
SqueueLines ==
    {"", "PENDING", "RUNNING", "COMPLETING", "CONFIGURING", "SUSPENDED",
     "CANCELLED", "TIMEOUT", "COMPLETED", "FAILED", "running"}

\* What `sacct --format=State --noheader --parsable2` can print on a line.
SacctLines ==
    {"COMPLETED", "FAILED", "CANCELLED by 1000", "TIMEOUT", "RUNNING",
     "PENDING", "NODE_FAIL"}

\* str.upper() on the state texts.
Upper(s) ==
    CASE s = "running" -> "RUNNING"
      [] s = "CANCELLED by 1000" -> "CANCELLED BY 1000"
      [] OTHER -> s

\* The state names that occur as a substring of an (upper-cased) line.
Keywords(s) ==
    CASE s = "CANCELLED BY 1000" -> {"CANCELLED"}
      [] s = "" -> {}
      [] OTHER -> {s}

\* str.strip() on a command's output: leading and trailing blank lines go.
Strip(out) == SelectSeq(out, LAMBDA l : l # "")

\* `key in state` for the whole (multi-line) sacct text.
Contains(out, key) == \E i \in 1..Len(out) : key \in Keywords(Upper(out[i]))

\* state_map of get_job_status (job_manager.py 77-83): .get(state, state).
state_map(state) ==
    CASE state = "PENDING" -> "QUEUED"
      [] state = "RUNNING" -> "RUNNING"
      [] state = "COMPLETING" -> "RUNNING"
      [] state = "CONFIGURING" -> "QUEUED"
      [] OTHER -> state

\* The sacct branch of get_job_status (job_manager.py 91-100).
sacct_status(rc, out) ==
    IF rc = 0 /\ Strip(out) # <<>>
    THEN IF Contains(Strip(out), "COMPLETED") THEN "COMPLETED"
         ELSE IF Contains(Strip(out), "FAILED")
                 \/ Contains(Strip(out), "CANCELLED")
                 \/ Contains(Strip(out), "TIMEOUT") THEN "FAILED"
         ELSE IF Contains(Strip(out), "RUNNING") THEN "RUNNING"
         ELSE "UNKNOWN"
    ELSE "UNKNOWN"

\* get_job_status (job_manager.py 58-100): squeue first, then sacct.
get_job_status(sq_rc, sq_out, sa_rc, sa_out) ==
    IF sq_rc = 0 /\ Strip(sq_out) # <<>>
    THEN state_map(Upper(Strip(sq_out)[1]))
    ELSE sacct_status(sa_rc, sa_out)

ReturnCodes == {0, 1}

SqueueOutputs == {<<>>} \cup {<<l>> : l \in SqueueLines}


SacctOutputs == SeqsUpTo(SacctLines, MaxSacctLines)

(***************************************************************************)
(* Python dictionaries keep their keys in insertion order: a dictionary is *)
(* a sequence of entries with distinct keys (field key).                   *)
(***************************************************************************)
DictKeys(d) == [i \in 1..Len(d) |-> d[i].key]

DictKeySet(d) == {d[i].key : i \in 1..Len(d)}

DictHas(d, k) == \E i \in 1..Len(d) : d[i].key = k

DictGet(d, k) == d[CHOOSE i \in 1..Len(d) : d[i].key = k]

\* d[k] = v: an existing key keeps its place, a new key goes last.
DictPut(d, k, v) ==
    IF DictHas(d, k)
    THEN [i \in 1..Len(d) |-> IF d[i].key = k THEN v ELSE d[i]]
    ELSE Append(d, v)

\* del d[k]
DictDel(d, k) == SelectSeq(d, LAMBDA e : e.key # k)

\* Dictionaries whose order is never looked at are functions on their keys.
EmptyFn == [x \in {} |-> x]

FPut(f, k, v) == [x \in DOMAIN f \cup {k} |-> IF x = k THEN v ELSE f[x]]

FDel(f, S) == [x \in DOMAIN f \ S |-> f[x]]

Range(l) == {l[i] : i \in 1..Len(l)}

(***************************************************************************)
(* The bounds and the values of the model.                                 *)
(***************************************************************************)
\* Job ids are 1..MaxJob.
MaxJob == 2

\* The threads that StatusMonitor.start_monitoring starts, one per call.
MaxThreads == 2

\* Characters a log file holds at most.
MaxFileLen == 4

\* Characters the dashboard's buffers hold at most, all together.
MaxLogLen == 12

Jobs == 1..MaxJob

Threads == 1..MaxThreads

NoThread == 0

NoJob == 0

Streams == {"stdout", "stderr"}

\* The labels the files are registered under: f'stdout_{job_id}',
\* f'stderr_{job_id}' (cli.py 87, 93). A label has one file.
Labels == Streams \X Jobs

\* What a job writes to a log file at a time, and what the dashboard is
\* handed at a time when it is driven directly.
FileChunks == {<<"a", "\n">>}

LogChunks == {<<"a", "\n", "a", "\n", "a", "\n">>}

\* JobInfo before anything is known: the {} of cli.py 68.
NoInfo == [elapsed |-> "", stdout_path |-> "", stderr_path |-> ""]

\* What the scheduler tells about a job at one poll: the answers to the two
\* status commands of get_job_status and the JobInfo of get_job_info. A
\* running job (seen by squeue) before and after its output path is known,
\* a completed and a cancelled one (seen by sacct only). Standard error goes
\* to the file of standard output.
SchedulerAnswers ==
    {[squeue |-> [rc |-> 0, out |-> <<"RUNNING">>], sacct |-> [rc |-> 0, out |-> <<>>],
      info |-> [elapsed |-> "00:00:01", stdout_path |-> "", stderr_path |-> ""]],
     [squeue |-> [rc |-> 0, out |-> <<"RUNNING">>], sacct |-> [rc |-> 0, out |-> <<>>],
      info |-> [elapsed |-> "00:00:02", stdout_path |-> "slurm.out", stderr_path |-> ""]],
     [squeue |-> [rc |-> 0, out |-> <<>>], sacct |-> [rc |-> 0, out |-> <<"COMPLETED">>],
      info |-> [elapsed |-> "00:00:02", stdout_path |-> "slurm.out", stderr_path |-> ""]],
     [squeue |-> [rc |-> 1, out |-> <<>>], sacct |-> [rc |-> 0, out |-> <<"CANCELLED by 1000">>],
      info |-> [elapsed |-> "00:00:02", stdout_path |-> "slurm.out", stderr_path |-> ""]]}

\* Who a registered callback belongs to: a client of the component alone,
\* or the controller's closures of cli.py 76-97 (status) and 88, 94 (log).
CallbackKinds == {"client", "controller"}

(***************************************************************************)
(* MonitorUI (ui_renderer.py): the dashboard state and its operations, as  *)
(* functions from a state u to the state after the call. The two           *)
(* dictionaries per stream of the source (stdout_scroll_pos and            *)
(* stderr_scroll_pos, stdout_lines and stderr_lines) are one function on   *)
(* the pairs <<stream, job>>, as is scroll_mode. A text is a sequence of   *)
(* characters.                                                             *)
(***************************************************************************)
\* self.console.height
TerminalHeight == 10

\* max(5, available_height // 2 - 2) of ui_renderer.py 114-116, with
\* available_height = terminal_height - 3 - 4.
max_lines_per_panel == Max(5, ((TerminalHeight - 3 - 4) \div 2) - 2)

\* str.split('\n')
RECURSIVE split(_)
split(s) ==
    IF \A i \in 1..Len(s) : s[i] # "\n"
    THEN <<s>>
    ELSE LET i == CHOOSE k \in 1..Len(s) :
                      s[k] = "\n" /\ \A m \in 1..(k - 1) : s[m] # "\n"
         IN  <<SubSeq(s, 1, i - 1)>> \o split(SubSeq(s, i + 1, Len(s)))

\* MonitorUI.__init__ (ui_renderer.py 18-32)
UIInit ==
    [job_data |-> <<>>, log_data |-> EmptyFn, current_job_id |-> NoJob,
     scroll_pos |-> EmptyFn, lines |-> EmptyFn, focused_panel |-> "stdout",
     scroll_mode |-> EmptyFn]

\* update_job_status without lines 65-68: the job is entered in the table
\* and the job on display is left as it is.
update_job_status_no_select(u, job_id, status, info) ==
    [u EXCEPT !.job_data = DictPut(@, job_id, [key |-> job_id, status |-> status, info |-> info])]

\* update_job_status (ui_renderer.py 51-68)
update_job_status(u, job_id, status, info) ==
    [u EXCEPT !.job_data = DictPut(@, job_id, [key |-> job_id, status |-> status, info |-> info]),
              !.current_job_id = IF @ = NoJob THEN job_id ELSE @]

\* is_in_scroll_mode (ui_renderer.py 178-182)
is_in_scroll_mode(u, job_id, panel) ==
    IF <<panel, job_id>> \in DOMAIN u.scroll_mode
    THEN u.scroll_mode[<<panel, job_id>>]
    ELSE FALSE

\* set_scroll_mode (ui_renderer.py 184-188)
set_scroll_mode(u, job_id, panel, enabled) ==
    [u EXCEPT !.scroll_mode = FPut(@, <<panel, job_id>>, enabled)]

\* len(self.stdout_lines.get(job_id, [])), and the same for stderr
total_lines(u, job_id, panel) ==
    IF <<panel, job_id>> \in DOMAIN u.lines THEN Len(u.lines[<<panel, job_id>>]) ELSE 0

\* scroll_to_bottom_stdout / scroll_to_bottom_stderr that set the offset
\* and leave the scroll mode as it is.
scroll_to_bottom_panel_keeps_mode(u, panel) ==
    IF u.current_job_id # NoJob
    THEN [u EXCEPT !.scroll_pos =
             FPut(@, <<panel, u.current_job_id>>,
                  Max(0, total_lines(u, u.current_job_id, panel) - max_lines_per_panel))]
    ELSE u

\* scroll_to_bottom_stdout, scroll_to_bottom_stderr (ui_renderer.py 539-571):
\* the panel of the job on display, whichever job the caller had in mind.
scroll_to_bottom_panel(u, panel) ==
    IF u.current_job_id # NoJob
    THEN set_scroll_mode(
             [u EXCEPT !.scroll_pos =
                 FPut(@, <<panel, u.current_job_id>>,
                      Max(0, total_lines(u, u.current_job_id, panel) - max_lines_per_panel))],
             u.current_job_id, panel, FALSE)
    ELSE u

\* The test of ui_renderer.py 120-133: the panel was at or near its bottom
\* before the update.
was_at_bottom(old_line_count, old_scroll_pos) ==
    \/ old_line_count = 0
    \/ old_line_count <= max_lines_per_panel
    \/ old_scroll_pos >= (old_line_count - max_lines_per_panel) - 2

\* update_log that follows the end of the stream in scroll mode too.
update_log_follows_always(u, job_id, log_type, new_content) ==
    LET key == <<log_type, job_id>>
        data == IF job_id \in DOMAIN u.log_data THEN u.log_data
                ELSE FPut(u.log_data, job_id, [stdout |-> <<>>, stderr |-> <<>>])
        old_line_count == IF key \in DOMAIN u.lines THEN Len(u.lines[key]) ELSE 0
        old_scroll_pos == IF key \in DOMAIN u.lines /\ key \in DOMAIN u.scroll_pos
                          THEN u.scroll_pos[key] ELSE 0
        full_content == data[job_id][log_type] \o new_content
        u2 == [u EXCEPT !.log_data = [data EXCEPT ![job_id][log_type] = full_content],
                        !.lines = FPut(@, key, split(full_content))]
    IN  IF was_at_bottom(old_line_count, old_scroll_pos)
        THEN scroll_to_bottom_panel(u2, log_type)
        ELSE u2

\* update_log that splits the new text by itself and adds its lines to the
\* lines it has.
update_log_splits_new(u, job_id, log_type, new_content) ==
    LET key == <<log_type, job_id>>
        data == IF job_id \in DOMAIN u.log_data THEN u.log_data
                ELSE FPut(u.log_data, job_id, [stdout |-> <<>>, stderr |-> <<>>])
        old_lines == IF key \in DOMAIN u.lines THEN u.lines[key] ELSE <<>>
    IN  [u EXCEPT !.log_data = [data EXCEPT ![job_id][log_type] = @ \o new_content],
                  !.lines = FPut(@, key, old_lines \o split(new_content))]

\* update_log (ui_renderer.py 70-176)
update_log(u, job_id, log_type, new_content) ==
    LET key == <<log_type, job_id>>
        data == IF job_id \in DOMAIN u.log_data THEN u.log_data
                ELSE FPut(u.log_data, job_id, [stdout |-> <<>>, stderr |-> <<>>])
        old_line_count == IF key \in DOMAIN u.lines THEN Len(u.lines[key]) ELSE 0
        old_scroll_pos == IF key \in DOMAIN u.lines /\ key \in DOMAIN u.scroll_pos
                          THEN u.scroll_pos[key] ELSE 0
        full_content == data[job_id][log_type] \o new_content
        u2 == [u EXCEPT !.log_data = [data EXCEPT ![job_id][log_type] = full_content],
                        !.lines = FPut(@, key, split(full_content))]
    IN  IF is_in_scroll_mode(u, job_id, log_type) THEN u2
        ELSE IF was_at_bottom(old_line_count, old_scroll_pos)
        THEN scroll_to_bottom_panel(u2, log_type)
        ELSE u2

\* exit_scroll_mode (ui_renderer.py 190-196)
exit_scroll_mode(u, job_id, panel) ==
    scroll_to_bottom_panel(set_scroll_mode(u, job_id, panel, FALSE), panel)

\* set_current_job (ui_renderer.py 198-206)
set_current_job(u, job_id) ==
    IF DictHas(u.job_data, job_id) THEN [u EXCEPT !.current_job_id = job_id] ELSE u

\* The line shown for a stream without lines (ui_renderer.py 305).
NoOutputYet == <<"[No output yet - waiting for file updates...]">>

\* _get_visible_lines that does not hold the offset below the largest one.
get_visible_lines_unclamped(lines, scroll_pos, max_height) ==
    IF Len(lines) = 0
    THEN [visible |-> <<NoOutputYet>>, start |-> 0, end |-> 0]
    ELSE LET start == Max(0, scroll_pos)
             end == Min(start + max_height, Len(lines))
         IN  [visible |-> SubSeq(lines, start + 1, end), start |-> start, end |-> end]

\* _get_visible_lines (ui_renderer.py 291-316): the lines on display and
\* their range [start, end) in the buffer's lines.
get_visible_lines(lines, scroll_pos, max_height) ==
    IF Len(lines) = 0
    THEN [visible |-> <<NoOutputYet>>, start |-> 0, end |-> 0]
    ELSE LET max_scroll == Max(0, Len(lines) - max_height)
             start == Max(0, Min(scroll_pos, max_scroll))
             end == Min(start + max_height, Len(lines))
         IN  [visible |-> SubSeq(lines, start + 1, end), start |-> start, end |-> end]

\* _render_output_panel (ui_renderer.py 318-434), what it writes: the
\* scroll positions of the job on display are set to 0 when missing
\* (349-352), and its lines are built when missing (355-360; a buffer that
\* has content has its lines).
render_output_panel(u) ==
    IF u.current_job_id # NoJob /\ DictHas(u.job_data, u.current_job_id)
    THEN [u EXCEPT !.scroll_pos =
             [k \in DOMAIN @ \cup {<<p, u.current_job_id>> : p \in Streams} |->
                 IF k \in DOMAIN @ THEN @[k] ELSE 0],
                   !.lines =
             [k \in DOMAIN @ \cup {<<p, u.current_job_id>> : p \in Streams} |->
                 IF k \in DOMAIN @ THEN @[k] ELSE <<>>]]
    ELSE u

\* What _render_output_panel shows of one panel of a job when it is the job
\* on display (ui_renderer.py 349-367).
visible_window(u, job_id, panel) ==
    get_visible_lines(
        IF <<panel, job_id>> \in DOMAIN u.lines THEN u.lines[<<panel, job_id>>] ELSE <<>>,
        IF <<panel, job_id>> \in DOMAIN u.scroll_pos THEN u.scroll_pos[<<panel, job_id>>] ELSE 0,
        max_lines_per_panel)

\* scroll_stdout_up, scroll_stderr_up (ui_renderer.py 475-481, 507-513)
scroll_panel_up(u, panel, n) ==
    LET key == <<panel, u.current_job_id>>
    IN  IF u.current_job_id # NoJob /\ key \in DOMAIN u.scroll_pos
        THEN set_scroll_mode([u EXCEPT !.scroll_pos[key] = Max(0, @ - n)],
                             u.current_job_id, panel, TRUE)
        ELSE u

\* scroll_stdout_down / scroll_stderr_down without the min(max_scroll, ...)
\* of ui_renderer.py 499.
scroll_panel_down_unclamped(u, panel, n) ==
    LET key == <<panel, u.current_job_id>>
    IN  IF u.current_job_id # NoJob /\ key \in DOMAIN u.scroll_pos
        THEN set_scroll_mode([u EXCEPT !.scroll_pos[key] = @ + n],
                             u.current_job_id, panel, TRUE)
        ELSE u

\* scroll_stdout_down, scroll_stderr_down (ui_renderer.py 483-505, 515-537)
scroll_panel_down(u, panel, n) ==
    LET key == <<panel, u.current_job_id>>
        max_scroll == Max(0, total_lines(u, u.current_job_id, panel) - max_lines_per_panel)
    IN  IF u.current_job_id # NoJob /\ key \in DOMAIN u.scroll_pos
        THEN set_scroll_mode([u EXCEPT !.scroll_pos[key] = Min(max_scroll, @ + n)],
                             u.current_job_id, panel, TRUE)
        ELSE u

\* switch_focus (ui_renderer.py 573-578)
switch_focus(u) ==
    [u EXCEPT !.focused_panel = IF @ = "stdout" THEN "stderr" ELSE "stdout"]

\* scroll_up, scroll_down, scroll_to_bottom (ui_renderer.py 580-599)
scroll_up(u, n) == scroll_panel_up(u, u.focused_panel, n)

scroll_down(u, n) == scroll_panel_down(u, u.focused_panel, n)

scroll_to_bottom(u) == scroll_to_bottom_panel(u, u.focused_panel)

\* scroll_to_top that takes both panels of the job on display to the top.
scroll_to_top_both(u) ==
    IF u.current_job_id # NoJob
    THEN [u EXCEPT !.scroll_pos =
             FPut(FPut(@, <<"stdout", u.current_job_id>>, 0),
                  <<"stderr", u.current_job_id>>, 0)]
    ELSE u

\* scroll_to_top (ui_renderer.py 601-607)
scroll_to_top(u) ==
    IF u.current_job_id # NoJob
    THEN [u EXCEPT !.scroll_pos = FPut(@, <<u.focused_panel, u.current_job_id>>, 0)]
    ELSE u

\* sorted(self.job_data.keys()) as a set, and its least element
FirstJob(ids) == CHOOSE j \in ids : \A k \in ids : j <= k

LastJob(ids) == CHOOSE j \in ids : \A k \in ids : j >= k

\* switch_to_next_job (ui_renderer.py 609-623)
switch_to_next_job(u) ==
    LET ids == DictKeySet(u.job_data)
        cur == u.current_job_id
    IN  IF ids = {} THEN u
        ELSE [u EXCEPT !.current_job_id =
                 IF cur = NoJob \/ cur \notin ids THEN FirstJob(ids)
                 ELSE IF \E j \in ids : j > cur
                      THEN FirstJob({j \in ids : j > cur})
                      ELSE FirstJob(ids)]

\* switch_to_previous_job that stops at the first job.
switch_to_previous_job_no_wrap(u) ==
    LET ids == DictKeySet(u.job_data)
        cur == u.current_job_id
    IN  IF ids = {} THEN u
        ELSE [u EXCEPT !.current_job_id =
                 IF cur = NoJob \/ cur \notin ids THEN FirstJob(ids)
                 ELSE IF \E j \in ids : j < cur
                      THEN LastJob({j \in ids : j < cur})
                      ELSE cur]

\* switch_to_previous_job (ui_renderer.py 625-639)
switch_to_previous_job(u) ==
    LET ids == DictKeySet(u.job_data)
        cur == u.current_job_id
    IN  IF ids = {} THEN u
        ELSE [u EXCEPT !.current_job_id =
                 IF cur = NoJob \/ cur \notin ids THEN FirstJob(ids)
                 ELSE IF \E j \in ids : j < cur
                      THEN LastJob({j \in ids : j < cur})
                      ELSE LastJob(ids)]

\* get_job_ids (ui_renderer.py 641-643)
get_job_ids(u) == DictKeys(u.job_data)

\* remove_job (ui_renderer.py 649-664)
remove_job(u, job_id) ==
    LET keys == {<<p, job_id>> : p \in Streams}
    IN  [u EXCEPT !.job_data = DictDel(@, job_id),
                  !.log_data = FDel(@, {job_id}),
                  !.scroll_pos = FDel(@, keys),
                  !.lines = FDel(@, keys),
                  !.scroll_mode = FDel(@, keys)]

(***************************************************************************)
(* The state.                                                              *)
(***************************************************************************)
VARIABLES
    \* JobManager.get_job_status in isolation
    squeue,            \* the squeue answer to the query in hand: [rc, out]
    sacct,             \* the sacct answer to the query in hand: [rc, out]
    reported,          \* what get_job_status returned for it, None before
    \* StatusMonitor
    sm_monitoring,     \* self.monitoring
    sm_stop_event,     \* self.stop_event (set / clear)
    monitor_thread,    \* self.monitor_thread: the thread started last
    status_callbacks,  \* self.status_callbacks: job -> whose callback
    current_statuses,  \* self.current_statuses, a dictionary
    thr,               \* the threads running _monitor_loop
    api,               \* where the caller of start/stop_monitoring stands
    api_jobs,          \* the arguments of the start_monitoring call in hand
    known,             \* history: per job, the status the loop last fetched
                       \* for the registration the table holds
    removed,           \* history: jobs whose RemoveJob returned last
    stopped,           \* history: StopMonitoring returned, nothing since
    \* the log files
    fs,                \* label -> [exists, text]
    \* LogTailer and its LogFileHandlers
    lt,                \* the LogTailer's attributes: handlers, observers,
                       \* log_callbacks, monitoring, stop_event, use_watchdog
    lt_lock,           \* self.lock: "free", or the thread that holds it
    poll,              \* the thread running _poll_loop
    notif,             \* label -> the observer thread inside on_modified
    pending,           \* labels whose observer has a modification to report
    starts,            \* history: label -> the start offsets of the texts
                       \* delivered since the file was registered or cut
    \* MonitorUI
    ui,
    \* MonitorController
    ctl,               \* where Controller.start_monitoring stands
    \* A function of the dashboard called by itself
    call,              \* the function, its arguments and what it returned
    session            \* run(): the main thread, the keyboard thread, the terminal

statusVars == <<squeue, sacct, reported>>

pollerVars ==
    <<sm_monitoring, sm_stop_event, monitor_thread, status_callbacks,
      current_statuses, thr, api, api_jobs, known, removed, stopped>>

worldVars == <<lt, notif, pending, starts, ui>>

tailVars == <<fs, lt_lock, poll>>

vars == <<statusVars, pollerVars, worldVars, tailVars, ctl, call, session>>

\* What a callback of the tailer or of the status poller can change.
World == [lt |-> lt, notif |-> notif, pending |-> pending, starts |-> starts, ui |-> ui]

SetWorld(w) ==
    /\ lt' = w.lt
    /\ notif' = w.notif
    /\ pending' = w.pending
    /\ starts' = w.starts
    /\ ui' = w.ui

\* The characters the dashboard u holds for the jobs 1..n.
RECURSIVE LogLen(_, _)
LogLen(u, n) ==
    IF n = 0 THEN 0
    ELSE LogLen(u, n - 1) +
         (IF n \in DOMAIN u.log_data
          THEN Len(u.log_data[n]["stdout"]) + Len(u.log_data[n]["stderr"])
          ELSE 0)

\* The dashboard of w holds no more than the model lets it.
Fits(w) == LogLen(w.ui, MaxJob) <= MaxLogLen

(***************************************************************************)
(* LogFileHandler and LogTailer (log_tailer.py), the calls made under the  *)
(* tailer's lock, as functions from a world w to the world after the call. *)
(***************************************************************************)
\* LogFileHandler.__init__ (log_tailer.py 14-25). History: initial_size, the
\* length of what the file held when read_existing_content read it, and
\* seen_size, the length the file had when the handler last looked at it.
NewHandler(label) ==
    [key |-> label, last_position |-> 0, initial_read_done |-> FALSE,
     initial_size |-> 0, seen_size |-> 0]

\* An observer thread that is not inside on_modified.
IdleReader == [pc |-> "idle", start |-> 0, text |-> <<>>, orphan |-> FALSE]

\* _on_file_update (log_tailer.py 163-170): the callback registered under
\* the label, if any, gets the text. The controller's callback is
\* ui.update_log(job, stream, content) (cli.py 88, 94). History: the
\* offset the text starts at.
on_file_update(w, label, start, content) ==
    IF label \in DOMAIN w.lt.log_callbacks
    THEN [w EXCEPT !.ui = IF w.lt.log_callbacks[label] = "controller"
                          THEN update_log(@, label[2], label[1], content)
                          ELSE @,
                   !.starts[label] = Append(@, start)]
    ELSE w

\* read_existing_content that leaves the handler's position at the start of
\* the file.
read_existing_content_from_zero(w, label) ==
    IF fs[label].exists
    THEN LET w1 == IF fs[label].text # <<>>
                   THEN on_file_update(w, label, 0, fs[label].text)
                   ELSE w
         IN  [w1 EXCEPT !.lt.handlers =
                 DictPut(@, label, [key |-> label, last_position |-> 0,
                                    initial_read_done |-> TRUE,
                                    initial_size |-> Len(fs[label].text),
                                    seen_size |-> Len(fs[label].text)])]
    ELSE [w EXCEPT !.lt.handlers =
             DictPut(@, label, [key |-> label, last_position |-> 0,
                                initial_read_done |-> TRUE, initial_size |-> 0,
                                seen_size |-> 0])]

\* read_existing_content (log_tailer.py 27-45) of the handler just created
\* under the label.
read_existing_content(w, label) ==
    IF fs[label].exists
    THEN LET w1 == IF fs[label].text # <<>>
                   THEN on_file_update(w, label, 0, fs[label].text)
                   ELSE w
         IN  [w1 EXCEPT !.lt.handlers =
                 DictPut(@, label, [key |-> label, last_position |-> Len(fs[label].text),
                                    initial_read_done |-> TRUE,
                                    initial_size |-> Len(fs[label].text),
                                    seen_size |-> Len(fs[label].text)])]
    ELSE [w EXCEPT !.lt.handlers =
             DictPut(@, label, [key |-> label, last_position |-> 0,
                                initial_read_done |-> TRUE, initial_size |-> 0,
                                seen_size |-> 0])]

\* The observer of the label is stopped and forgotten (log_tailer.py
\* 220-223, 265-268): what it had to report is dropped. Stopping the
\* observer ends its deliveries: of a check it is in the middle of, the
\* callback has been made, and the position still to be written goes to
\* the handler the observer was scheduled with.
drop_observer(w, label) ==
    [w EXCEPT !.lt.observers = @ \ {label},
              !.pending = @ \ {label},
              !.notif[label].orphan = @ \/ w.notif[label].pc # "idle"]

\* add_file (log_tailer.py 203-255), the path not empty, under the lock.
add_file(w, label, callback) ==
    LET w1 == drop_observer(w, label)
        w2 == [w1 EXCEPT !.lt.handlers = DictPut(DictDel(@, label), label, NewHandler(label)),
                         !.lt.log_callbacks = FPut(@, label, callback),
                         !.starts[label] = <<>>]
        w3 == read_existing_content(w2, label)
    IN  IF w3.lt.use_watchdog
        THEN [w3 EXCEPT !.lt.observers = @ \cup {label}]
        ELSE w3

\* remove_file that leaves the callback of the label in place.
remove_file_keeps_callback(w, label) ==
    LET w1 == drop_observer(w, label)
    IN  [w1 EXCEPT !.lt.handlers = DictDel(@, label),
                   !.starts[label] = <<>>]

\* remove_file (log_tailer.py 257-274), under the lock.
remove_file(w, label) ==
    LET w1 == drop_observer(w, label)
    IN  [w1 EXCEPT !.lt.handlers = DictDel(@, label),
                   !.lt.log_callbacks = FDel(@, {label}),
                   !.starts[label] = <<>>]

\* _read_new_content without the reset of line 64.
read_start_keeps_position(h, file) ==
    IF ~file.exists THEN 0 ELSE h.last_position

\* _read_new_content (log_tailer.py 52-82) up to the callback: the offset
\* the handler reads from, after the resets of lines 56 and 64.
read_start(h, file) ==
    IF ~file.exists THEN 0
    ELSE IF Len(file.text) < h.last_position THEN 0
    ELSE h.last_position

\* f.seek(self.last_position); new_content = f.read()
new_content(h, file) ==
    IF file.exists
    THEN SubSeq(file.text, read_start(h, file) + 1, Len(file.text))
    ELSE <<>>

\* A position that is never written.
set_last_position_skipped(handlers, label, v) == handlers

\* self.last_position = v in the handler of the label, if it still has one.
set_last_position(handlers, label, v) ==
    IF DictHas(handlers, label)
    THEN DictPut(handlers, label, [DictGet(handlers, label) EXCEPT !.last_position = v])
    ELSE handlers

(***************************************************************************)
(* MonitorController (cli.py): the status callback.                        *)
(***************************************************************************)
\* status_callback (cli.py 76-97, and the same again 139-156): the
\* dashboard gets the status, and every path the info names is registered
\* with the tailer.
status_callback(w, job_id, status, info) ==
    LET w1 == [w EXCEPT !.ui = update_job_status(@, job_id, status, info)]
        w2 == IF info.stdout_path # ""
              THEN add_file(w1, <<"stdout", job_id>>, "controller")
              ELSE w1
    IN  IF info.stderr_path # ""
        THEN add_file(w2, <<"stderr", job_id>>, "controller")
        ELSE w2

\* The callback takes the tailer's lock when it has a file to register.
needs_lock(info) == info.stdout_path # "" \/ info.stderr_path # ""

(***************************************************************************)
(* JobManager.get_job_status as an operation of its own.                   *)
(***************************************************************************)
StatusInit ==
    /\ squeue \in [rc : ReturnCodes, out : SqueueOutputs]
    /\ sacct \in [rc : ReturnCodes, out : SacctOutputs]
    /\ reported = None

StatusIdle ==
    /\ squeue = [rc |-> 1, out |-> <<>>]
    /\ sacct = [rc |-> 1, out |-> <<>>]
    /\ reported = None

\* The Scheduler Client answers the query in hand.
ReportStatus ==
    /\ reported = None
    /\ reported' = get_job_status(squeue.rc, squeue.out, sacct.rc, sacct.out)
    /\ UNCHANGED <<squeue, sacct, pollerVars, worldVars, tailVars, ctl, call, session>>

(***************************************************************************)
(* StatusMonitor (status_monitor.py).                                      *)
(***************************************************************************)
\* current_statuses[job_id] = {} (status_monitor.py 46, 108).
EmptyEntry(j) == [key |-> j, status |-> None, info |-> NoInfo]

\* A thread that is not running _monitor_loop. Besides the loop's own
\* locals (job, todo, status, info) a thread carries history: changed (the
\* outcome of the comparison of line 72), cbArgs (the arguments of the
\* callback invoked in this turn), gone (the job in hand was not registered
\* when its turn began, or was removed during it), lastFailed (the job whose
\* turn was the last to raise and has not had a good turn since), nsnap and
\* nq (the jobs in the snapshot and the turns begun in this cycle), sawStop
\* (the loop ended because its condition was false).
IdleThread ==
    [pc |-> "idle", job |-> NoJob, todo |-> <<>>, status |-> None, info |-> NoInfo,
     changed |-> FALSE, cbArgs |-> <<>>, gone |-> FALSE, lastFailed |-> NoJob,
     nsnap |-> 0, nq |-> 0, sawStop |-> FALSE]

\* The state after __init__ (status_monitor.py 12-26).
PollerInit ==
    /\ sm_monitoring = FALSE
    /\ sm_stop_event = FALSE
    /\ monitor_thread = NoThread
    /\ status_callbacks = EmptyFn
    /\ current_statuses = <<>>
    /\ thr = [t \in Threads |-> IdleThread]
    /\ api = "ready"
    /\ api_jobs = [job_ids |-> <<>>, callback |-> "client"]
    /\ known = [j \in Jobs |-> None]
    /\ removed = {}
    /\ stopped = FALSE

\* Job lists a caller passes to start_monitoring: no job twice.
JobLists == {l \in SeqsUpTo(Jobs, MaxJob) : \A i, k \in 1..Len(l) : i # k => l[i] # l[k]}

\* The registrations of start_monitoring (status_monitor.py 43-46), one job
\* after the other.
RECURSIVE register_jobs(_, _)
register_jobs(d, l) ==
    IF l = <<>> THEN d
    ELSE register_jobs(DictPut(d, Head(l), EmptyEntry(Head(l))), Tail(l))

\* The thread is inside _monitor_loop.
Live(t) == thr[t].pc \notin {"idle", "dead"}

\* The thread is inside a call that can outlast join(timeout=2.0): a
\* scheduler query (up to 30 s each, utils.py 25) or a callback.
Blocked(t) == thr[t].pc \in {"query", "callback"}

\* The loop goes on to the next job of its snapshot, or to the wait at the
\* end of the cycle (status_monitor.py 64, 96).
Advance(r) ==
    IF r.todo = <<>>
    THEN [r EXCEPT !.pc = "wait", !.job = NoJob, !.status = None, !.info = NoInfo,
                   !.changed = FALSE, !.cbArgs = <<>>, !.gone = FALSE]
    ELSE [r EXCEPT !.pc = "query", !.job = Head(r.todo), !.todo = Tail(r.todo),
                   !.status = None, !.info = NoInfo, !.changed = FALSE,
                   !.cbArgs = <<>>,
                   !.gone = Head(r.todo) \notin DOMAIN status_callbacks,
                   !.nq = r.nq + 1]

\* An exception that ends the thread instead of the job's turn.
on_exception_escapes(r) ==
    [IdleThread EXCEPT !.pc = "dead", !.lastFailed = r.lastFailed]

\* `except Exception: pass` around one job's turn (status_monitor.py 90-93).
on_exception(r) == Advance(r)

\* status_monitor.py 71-72: status != old_status or not current_statuses[job_id]
status_changed(status, entry) ==
    status # entry.status \/ (entry.status = None /\ entry.info = NoInfo)

\* The callback invoked only for a changed status.
callback_due_on_change(r, callbacks) == r.changed /\ r.job \in DOMAIN callbacks

\* status_monitor.py 79: the callback is invoked when one is registered.
callback_due(r, callbacks) == r.job \in DOMAIN callbacks

\* status_monitor.py 79-81: the callback is looked up and invoked with the
\* values just fetched, or the loop goes on to line 88.
InvokeCallback(r) ==
    IF callback_due(r, status_callbacks)
    THEN [r EXCEPT !.pc = "callback", !.cbArgs = <<r.job, r.status, r.info>>]
    ELSE [r EXCEPT !.pc = "updinfo"]

\* What the callback invoked by the step to r does: the controller's
\* callback updates the dashboard and registers the job's files, waiting
\* for the tailer's lock; a client's is left open.
CallbackEffect(r) ==
    IF r.pc = "callback" /\ status_callbacks[r.job] = "controller"
    THEN /\ needs_lock(r.info) => lt_lock = "free"
         /\ Fits(status_callback(World, r.job, r.status, r.info))
         /\ SetWorld(status_callback(World, r.job, r.status, r.info))
    ELSE UNCHANGED worldVars

\* Nothing outside the StatusMonitor changes.
Quiet == UNCHANGED <<statusVars, worldVars, tailVars, ctl, call, session>>

\* History: the turn of the job in hand fails, the job being registered.
Failed(r) == IF r.gone THEN r ELSE [r EXCEPT !.lastFailed = r.job]

\* The loop condition and the snapshot of the tracked jobs
\* (status_monitor.py 63-64); the wait of line 96 returns on its timer or on
\* the stop event.
LoopTop(t) ==
    /\ thr[t].pc \in {"top", "wait"}
    /\ IF sm_monitoring /\ ~sm_stop_event
       THEN LET keys == DictKeys(current_statuses)
            IN  thr' = [thr EXCEPT ![t] =
                    IF keys = <<>>
                    THEN [IdleThread EXCEPT !.pc = "wait",
                                            !.lastFailed = thr[t].lastFailed]
                    ELSE [IdleThread EXCEPT !.pc = "query", !.job = Head(keys),
                                            !.todo = Tail(keys),
                                            !.gone = Head(keys) \notin DOMAIN status_callbacks,
                                            !.lastFailed = thr[t].lastFailed,
                                            !.nsnap = Len(keys), !.nq = 1]]
       ELSE thr' = [thr EXCEPT ![t] = [IdleThread EXCEPT !.pc = "dead", !.sawStop = TRUE]]
    /\ UNCHANGED <<sm_monitoring, sm_stop_event, monitor_thread, status_callbacks,
                   current_statuses, api, api_jobs, known, removed, stopped>>
    /\ Quiet

\* get_job_status or get_job_info raises (status_monitor.py 67-68): a
\* timeout or a missing command, utils.py 28-35.
QueryRaises(t) ==
    /\ thr[t].pc = "query"
    /\ thr' = [thr EXCEPT ![t] = on_exception(Failed(@))]
    /\ UNCHANGED <<sm_monitoring, sm_stop_event, monitor_thread, status_callbacks,
                   current_statuses, api, api_jobs, known, removed, stopped>>
    /\ Quiet

\* Both queries return and the loop compares with the table
\* (status_monitor.py 67-72); a job no longer in the table is a KeyError.
\* An unchanged status goes straight to the callback of lines 79-81.
QueryReturns(t) ==
    /\ thr[t].pc = "query"
    /\ \E a \in SchedulerAnswers :
        LET s == get_job_status(a.squeue.rc, a.squeue.out, a.sacct.rc, a.sacct.out)
            r == [thr[t] EXCEPT !.status = s, !.info = a.info]
        IN  IF ~DictHas(current_statuses, r.job)
            THEN /\ thr' = [thr EXCEPT ![t] = on_exception(r)]
                 /\ UNCHANGED <<known, worldVars>>
            ELSE IF status_changed(s, DictGet(current_statuses, r.job))
            THEN /\ thr' = [thr EXCEPT ![t] = [r EXCEPT !.pc = "store", !.changed = TRUE]]
                 /\ UNCHANGED <<known, worldVars>>
            ELSE /\ thr' = [thr EXCEPT ![t] = InvokeCallback(r)]
                 /\ known' = [known EXCEPT ![r.job] = s]
                 /\ CallbackEffect(InvokeCallback(r))
    /\ UNCHANGED <<sm_monitoring, sm_stop_event, monitor_thread, status_callbacks,
                   current_statuses, api, api_jobs, removed, stopped>>
    /\ UNCHANGED <<statusVars, tailVars, ctl, call, session>>

\* status_monitor.py 73-76: the entry is replaced (or created); then the
\* callback of lines 79-81.
Store(t) ==
    /\ thr[t].pc = "store"
    /\ current_statuses' =
           DictPut(current_statuses, thr[t].job,
                   [key |-> thr[t].job, status |-> thr[t].status, info |-> thr[t].info])
    /\ known' = [known EXCEPT ![thr[t].job] = thr[t].status]
    /\ thr' = [thr EXCEPT ![t] = InvokeCallback(@)]
    /\ CallbackEffect(InvokeCallback(thr[t]))
    /\ UNCHANGED <<sm_monitoring, sm_stop_event, monitor_thread, status_callbacks,
                   api, api_jobs, removed, stopped>>
    /\ UNCHANGED <<statusVars, tailVars, ctl, call, session>>

\* The callback returns, or raises and is caught (status_monitor.py 82-85).
CallbackEnds(t) ==
    /\ thr[t].pc = "callback"
    /\ \E raised \in BOOLEAN :
        thr' = [thr EXCEPT ![t] =
                  IF raised THEN [Failed(@) EXCEPT !.pc = "updinfo"]
                  ELSE [@ EXCEPT !.pc = "updinfo",
                                 !.lastFailed = IF @ = thr[t].job THEN NoJob ELSE @]]
    /\ UNCHANGED <<sm_monitoring, sm_stop_event, monitor_thread, status_callbacks,
                   current_statuses, api, api_jobs, known, removed, stopped>>
    /\ Quiet

\* status_monitor.py 88: current_statuses[job_id]['info'] = info, a KeyError
\* when the job is gone; then the next job.
UpdateInfo(t) ==
    /\ thr[t].pc = "updinfo"
    /\ IF DictHas(current_statuses, thr[t].job)
       THEN /\ current_statuses' =
                   DictPut(current_statuses, thr[t].job,
                           [DictGet(current_statuses, thr[t].job) EXCEPT !.info = thr[t].info])
            /\ thr' = [thr EXCEPT ![t] = Advance(@)]
       ELSE /\ thr' = [thr EXCEPT ![t] = on_exception(@)]
            /\ UNCHANGED current_statuses
    /\ UNCHANGED <<sm_monitoring, sm_stop_event, monitor_thread, status_callbacks,
                   api, api_jobs, known, removed, stopped>>
    /\ Quiet

\* History: the jobs js leave the table. A thread whose job in hand is one
\* of them has lost it, and a failure of its turn is no longer remembered.
MarkGone(js) ==
    [t \in Threads |->
        [thr[t] EXCEPT !.gone = @ \/ thr[t].job \in js,
                       !.lastFailed = IF @ \in js THEN NoJob ELSE @]]

\* add_job_to_monitor (status_monitor.py 98-108), with a callback.
add_job_to_monitor(j, callback) ==
    /\ api = "ready"
    /\ status_callbacks' = FPut(status_callbacks, j, callback)
    /\ current_statuses' = DictPut(current_statuses, j, EmptyEntry(j))
    /\ known' = [known EXCEPT ![j] = None]
    /\ removed' = removed \ {j}
    /\ stopped' = FALSE
    /\ thr' = [t \in Threads |->
                [thr[t] EXCEPT !.lastFailed = IF @ = j THEN NoJob ELSE @]]
    /\ UNCHANGED <<sm_monitoring, sm_stop_event, monitor_thread, api, api_jobs>>

\* remove_job_from_monitor (status_monitor.py 110-120).
remove_job_from_monitor(j) ==
    /\ api = "ready"
    /\ status_callbacks' = FDel(status_callbacks, {j})
    /\ current_statuses' = DictDel(current_statuses, j)
    /\ known' = [known EXCEPT ![j] = None]
    /\ removed' = removed \cup {j}
    /\ thr' = MarkGone({j})
    /\ UNCHANGED <<sm_monitoring, sm_stop_event, monitor_thread, api, api_jobs, stopped>>

\* stop_monitoring, up to the join (status_monitor.py 54-57).
StopBegin(next) ==
    /\ sm_monitoring' = FALSE
    /\ sm_stop_event' = TRUE
    /\ api' = next
    /\ UNCHANGED <<monitor_thread, status_callbacks, current_statuses, thr,
                   known, removed, stopped>>

\* stop_monitoring called by a client.
stop_monitoring ==
    /\ api = "ready"
    /\ StopBegin("stop_join")
    /\ UNCHANGED api_jobs

\* start_monitoring (status_monitor.py 28-37): a running monitor is stopped
\* first.
start_monitoring(job_ids, callback) ==
    /\ api = "ready"
    /\ \E t \in Threads : thr[t].pc = "idle"
    /\ api_jobs' = [job_ids |-> job_ids, callback |-> callback]
    /\ IF sm_monitoring
       THEN StopBegin("start_join")
       ELSE /\ api' = "start_rest"
            /\ UNCHANGED <<sm_monitoring, sm_stop_event, monitor_thread,
                           status_callbacks, current_statuses, thr, known,
                           removed, stopped>>

\* The tables are cleared and stop_monitoring returns
\* (status_monitor.py 58-59).
StopEnd ==
    /\ status_callbacks' = EmptyFn
    /\ current_statuses' = <<>>
    /\ known' = [j \in Jobs |-> None]
    /\ thr' = MarkGone(Jobs)
    /\ stopped' = (api = "stop_join")
    /\ api' = IF api = "stop_join" THEN "ready" ELSE "start_rest"
    /\ UNCHANGED <<sm_monitoring, sm_stop_event, monitor_thread, api_jobs, removed>>

\* The join of status_monitor.py 56-57 returns because there is no live
\* thread to wait for, or because the thread has ended.
JoinReturns ==
    /\ api \in {"stop_join", "start_join"}
    /\ IF monitor_thread = NoThread THEN TRUE ELSE ~Live(monitor_thread)
    /\ StopEnd
    /\ Quiet

\* The join returns after its two seconds while the thread is still inside
\* a query or a callback.
JoinTimesOut ==
    /\ api \in {"stop_join", "start_join"}
    /\ monitor_thread # NoThread
    /\ Blocked(monitor_thread)
    /\ StopEnd
    /\ Quiet

\* The rest of start_monitoring: the registrations and the new thread
\* (status_monitor.py 39-50).
StartRest ==
    /\ api = "start_rest"
    /\ \E t \in Threads :
        /\ thr[t].pc = "idle"
        /\ \A u \in Threads : thr[u].pc = "idle" => t <= u
        /\ thr' = [thr EXCEPT ![t] = [IdleThread EXCEPT !.pc = "top"]]
        /\ monitor_thread' = t
    /\ sm_stop_event' = FALSE
    /\ sm_monitoring' = TRUE
    /\ status_callbacks' =
           [j \in DOMAIN status_callbacks \cup Range(api_jobs.job_ids) |->
               IF j \in Range(api_jobs.job_ids) THEN api_jobs.callback
               ELSE status_callbacks[j]]
    /\ current_statuses' = register_jobs(current_statuses, api_jobs.job_ids)
    /\ known' = [j \in Jobs |-> IF j \in Range(api_jobs.job_ids) THEN None ELSE known[j]]
    /\ removed' = removed \ Range(api_jobs.job_ids)
    /\ stopped' = FALSE
    /\ api' = "ready"
    /\ api_jobs' = [job_ids |-> <<>>, callback |-> "client"]
    /\ Quiet

\* is_finished (status_monitor.py 134-148): an entry that is not empty and
\* whose status is a final one.
is_finished(j) ==
    IF DictHas(current_statuses, j)
    THEN DictGet(current_statuses, j).status \in {"COMPLETED", "FAILED"}
    ELSE FALSE

\* The clients of a StatusMonitor on its own.
StartMonitoring == (\E l \in JobLists : start_monitoring(l, "client")) /\ Quiet

StopMonitoring == stop_monitoring /\ Quiet

AddJob == (\E j \in Jobs : add_job_to_monitor(j, "client")) /\ Quiet

RemoveJob == (\E j \in Jobs : remove_job_from_monitor(j)) /\ Quiet

MonitorLoop ==
    \E t \in Threads :
        \/ LoopTop(t)
        \/ QueryRaises(t)
        \/ QueryReturns(t)
        \/ Store(t)
        \/ CallbackEnds(t)
        \/ UpdateInfo(t)

\* The StatusMonitor with its clients, every query and callback ending
\* within the two seconds a join waits.
PollerNext ==
    \/ StartMonitoring
    \/ StopMonitoring
    \/ JoinReturns
    \/ StartRest
    \/ AddJob
    \/ RemoveJob
    \/ MonitorLoop

\* Starting and stopping alone, with queries and callbacks that may outlast
\* the join.
LifecycleNext ==
    \/ StartMonitoring
    \/ StopMonitoring
    \/ JoinReturns
    \/ JoinTimesOut
    \/ StartRest
    \/ MonitorLoop

(***************************************************************************)
(* LogTailer (log_tailer.py): its clients, its poll thread, the observer   *)
(* threads, and the jobs that write the files.                             *)
(***************************************************************************)
\* The files there are: the jobs write to standard output only.
Files == {<<"stdout", j>> : j \in Jobs}

NoLabel == <<>>

\* LogTailer.__init__ (log_tailer.py 92-114); the watchdog observer starts
\* or does not.
NewTailer(use_watchdog) ==
    [handlers |-> <<>>, observers |-> {}, log_callbacks |-> EmptyFn,
     monitoring |-> FALSE, stop_event |-> FALSE, use_watchdog |-> use_watchdog]

\* No poll thread: monitor_thread is None.
NoPoll == [pc |-> "none", todo |-> <<>>, label |-> NoLabel, start |-> 0, text |-> <<>>]

\* The files before any job has written, a tailer just constructed.
TailIdle ==
    /\ fs = [l \in Labels |-> [exists |-> FALSE, text |-> <<>>]]
    /\ lt_lock = "free"
    /\ poll = NoPoll
    /\ notif = [l \in Labels |-> IdleReader]
    /\ pending = {}
    /\ starts = [l \in Labels |-> <<>>]

TailInit ==
    /\ lt \in {NewTailer(b) : b \in BOOLEAN}
    /\ TailIdle

\* The dictionaries of paths a client passes to start_monitoring.
FileLists ==
    {l \in SeqsUpTo(Files, MaxJob) : \A i, k \in 1..Len(l) : i # k => l[i] # l[k]}

\* stop_monitoring (log_tailer.py 185-198): every observer is stopped and
\* the three dictionaries are cleared.
tail_stop_monitoring(w) ==
    [w EXCEPT !.lt.monitoring = FALSE,
              !.lt.stop_event = TRUE,
              !.lt.observers = {},
              !.lt.handlers = <<>>,
              !.lt.log_callbacks = EmptyFn,
              !.pending = {},
              !.notif = [l \in Labels |->
                            [w.notif[l] EXCEPT !.orphan = @ \/ w.notif[l].pc # "idle"]],
              !.starts = [l \in Labels |-> <<>>]]

\* The registrations of start_monitoring (log_tailer.py 132-155), the
\* directories of the files being there: no handler reads what its file
\* already holds.
RECURSIVE register_files(_, _, _)
register_files(w, paths, callback) ==
    IF paths = <<>> THEN w
    ELSE LET label == Head(paths)
             w1 == [w EXCEPT !.lt.log_callbacks = FPut(@, label, callback),
                             !.lt.handlers = DictPut(@, label, NewHandler(label)),
                             !.starts[label] = <<>>]
             w2 == IF w1.lt.use_watchdog
                   THEN [w1 EXCEPT !.lt.observers = @ \cup {label}]
                   ELSE w1
         IN  register_files(w2, Tail(paths), callback)

\* start_monitoring (log_tailer.py 116-155)
tail_start_monitoring(w, paths, callback) ==
    LET w0 == IF w.lt.monitoring THEN tail_stop_monitoring(w) ELSE w
        w1 == [w0 EXCEPT !.lt.stop_event = FALSE, !.lt.monitoring = TRUE]
    IN  register_files(w1, paths, callback)

\* _read_new_content (log_tailer.py 52-74) by the handler of the label: the
\* resets of lines 56 and 64, and the callback when there is new text.
read_new_content(w, label) ==
    LET h == DictGet(w.lt.handlers, label)
        start == read_start(h, fs[label])
        text == new_content(h, fs[label])
        size == IF fs[label].exists THEN Len(fs[label].text) ELSE 0
        hs == set_last_position(w.lt.handlers, label, start)
        w1 == [w EXCEPT !.lt.handlers =
                  DictPut(hs, label, [DictGet(hs, label) EXCEPT !.seen_size = size])]
    IN  IF text # <<>> THEN on_file_update(w1, label, start, text) ELSE w1

\* _read_new_content (log_tailer.py 52-82) from its first line to its last:
\* after the callback the position is the end of what was read (75).
check_for_updates(w, label) ==
    LET h == DictGet(w.lt.handlers, label)
        start == read_start(h, fs[label])
        text == new_content(h, fs[label])
        w1 == read_new_content(w, label)
    IN  IF text # <<>>
        THEN [w1 EXCEPT !.lt.handlers = set_last_position(@, label, start + Len(text))]
        ELSE w1

\* Nothing of the other components changes.
TailQuiet == UNCHANGED <<statusVars, pollerVars, ctl, call, session>>

\* A client starts the tailer on a tailer that is fresh or monitoring
\* (log_tailer.py 116-161). The poll thread is started unless one is alive.
TailStart ==
    /\ lt_lock = "free"
    /\ lt.monitoring \/ lt.handlers = <<>>
    /\ \E paths \in FileLists :
           SetWorld(tail_start_monitoring(World, paths, "client"))
    /\ poll' = [NoPoll EXCEPT !.pc = "top"]
    /\ UNCHANGED <<fs, lt_lock>>
    /\ TailQuiet

\* A client stops the tailer (log_tailer.py 185-201); the poll thread the
\* join waits for ends at its loop condition.
TailStop ==
    /\ lt_lock = "free"
    /\ SetWorld(tail_stop_monitoring(World))
    /\ UNCHANGED <<fs, lt_lock, poll>>
    /\ TailQuiet

\* A client registers a file (log_tailer.py 203-255).
AddFile ==
    /\ lt_lock = "free"
    /\ \E l \in Files : SetWorld(add_file(World, l, "client"))
    /\ UNCHANGED <<fs, lt_lock, poll>>
    /\ TailQuiet

\* A client removes a file (log_tailer.py 257-274).
RemoveFile ==
    /\ lt_lock = "free"
    /\ \E l \in Files : SetWorld(remove_file(World, l))
    /\ UNCHANGED <<fs, lt_lock, poll>>
    /\ TailQuiet

\* The poll thread goes on to the next handler of its snapshot, or leaves
\* the lock and waits for the interval (log_tailer.py 176, 183).
PollAdvance(p) ==
    IF p.todo = <<>>
    THEN [NoPoll EXCEPT !.pc = "wait"]
    ELSE [NoPoll EXCEPT !.pc = "check", !.todo = p.todo]

\* _poll_loop (log_tailer.py 174-176): the loop condition, the lock and
\* the snapshot of the handlers.
PollTop ==
    /\ poll.pc \in {"top", "wait"}
    /\ IF lt.monitoring /\ ~lt.stop_event
       THEN /\ lt_lock = "free"
            /\ poll' = PollAdvance([NoPoll EXCEPT !.todo = DictKeys(lt.handlers)])
            /\ lt_lock' = IF lt.handlers = <<>> THEN "free" ELSE "poll"
       ELSE /\ poll' = [NoPoll EXCEPT !.pc = "dead"]
            /\ UNCHANGED lt_lock
    /\ UNCHANGED <<fs, worldVars>>
    /\ TailQuiet

\* handler.check_for_updates() of the next handler (log_tailer.py 178, 84-86,
\* 52-74): with new text the callback runs and the position is still to be
\* written.
PollCheck ==
    /\ poll.pc = "check"
    /\ LET label == Head(poll.todo)
           h == DictGet(lt.handlers, label)
           text == new_content(h, fs[label])
           p == [poll EXCEPT !.todo = Tail(poll.todo)]
       IN  /\ Fits(read_new_content(World, label))
           /\ SetWorld(read_new_content(World, label))
           /\ IF text # <<>>
              THEN /\ poll' = [p EXCEPT !.pc = "cb", !.label = label,
                                        !.start = read_start(h, fs[label]),
                                        !.text = text]
                   /\ UNCHANGED lt_lock
              ELSE /\ poll' = PollAdvance(p)
                   /\ lt_lock' = IF p.todo = <<>> THEN "free" ELSE lt_lock
    /\ UNCHANGED fs
    /\ TailQuiet

\* self.last_position = f.tell() (log_tailer.py 75), then the next handler.
PollCbEnds ==
    /\ poll.pc = "cb"
    /\ lt' = [lt EXCEPT !.handlers =
                 set_last_position(@, poll.label, poll.start + Len(poll.text))]
    /\ poll' = PollAdvance(poll)
    /\ lt_lock' = IF poll.todo = <<>> THEN "free" ELSE lt_lock
    /\ UNCHANGED <<fs, notif, pending, starts, ui>>
    /\ TailQuiet

\* on_modified (log_tailer.py 47-50) in the observer thread of a file that
\* was modified: _read_new_content, no lock held.
OnModified ==
    /\ \E l \in Files :
        /\ l \in pending
        /\ notif[l].pc = "idle"
        /\ LET h == DictGet(lt.handlers, l)
               text == new_content(h, fs[l])
               w == read_new_content(World, l)
           IN  /\ Fits(w)
               /\ SetWorld([w EXCEPT !.pending = @ \ {l},
                                     !.notif[l] =
                                         IF text # <<>>
                                         THEN [pc |-> "cb", start |-> read_start(h, fs[l]),
                                               text |-> text, orphan |-> FALSE]
                                         ELSE IdleReader])
    /\ UNCHANGED <<fs, lt_lock, poll>>
    /\ TailQuiet

\* self.last_position = f.tell() (log_tailer.py 75) in the observer thread:
\* the write goes to the handler the observer was scheduled with.
NotifyEnds ==
    /\ \E l \in Files :
        /\ notif[l].pc = "cb"
        /\ lt' = IF notif[l].orphan THEN lt
                 ELSE [lt EXCEPT !.handlers =
                          set_last_position(@, l, notif[l].start + Len(notif[l].text))]
        /\ notif' = [notif EXCEPT ![l] = IdleReader]
    /\ UNCHANGED <<fs, lt_lock, poll, pending, starts, ui>>
    /\ TailQuiet

\* A job opens its output file.
CreateFile ==
    /\ \E l \in Files :
        /\ ~fs[l].exists
        /\ fs' = [fs EXCEPT ![l].exists = TRUE]
    /\ UNCHANGED <<lt_lock, poll, worldVars>>
    /\ TailQuiet

\* A job writes to its output file; an observer of the file is notified.
FileAppend ==
    /\ \E l \in Files, chunk \in FileChunks :
        /\ fs[l].exists
        /\ Len(fs[l].text) + Len(chunk) <= MaxFileLen
        /\ fs' = [fs EXCEPT ![l].text = @ \o chunk]
        /\ pending' = IF l \in lt.observers THEN pending \cup {l} ELSE pending
    /\ UNCHANGED <<lt_lock, poll, lt, notif, starts, ui>>
    /\ TailQuiet

\* The callbacks a registration has had, at most, when its file is cut.
MaxCallbacks == 2

\* The job's output file is rewritten shorter, as when the job is requeued;
\* an observer of the file is notified.
FileTruncate ==
    /\ \E l \in Files :
        /\ fs[l].exists
        /\ Len(starts[l]) < MaxCallbacks
        /\ \E n \in 0..(Len(fs[l].text) - 1) :
               fs' = [fs EXCEPT ![l].text = SubSeq(@, 1, n)]
        /\ pending' = IF l \in lt.observers THEN pending \cup {l} ELSE pending
    /\ UNCHANGED <<lt_lock, poll, lt, notif, starts, ui>>
    /\ TailQuiet

\* One handler's check_for_updates (log_tailer.py 84-86) called by a single
\* thread, from its first line to its last.
ReaderCheck ==
    /\ \E l \in Files :
        /\ DictHas(lt.handlers, l)
        /\ SetWorld(check_for_updates(World, l))
    /\ UNCHANGED <<fs, lt_lock, poll>>
    /\ TailQuiet

\* The handlers read by one thread only, no observer and no poll thread,
\* while their files appear, grow and are cut.
ReaderNext ==
    \/ AddFile
    \/ ReaderCheck
    \/ CreateFile
    \/ FileAppend
    \/ FileTruncate

TailNext ==
    \/ TailStart
    \/ TailStop
    \/ AddFile
    \/ RemoveFile
    \/ PollTop
    \/ PollCheck
    \/ PollCbEnds
    \/ OnModified
    \/ NotifyEnds
    \/ CreateFile
    \/ FileAppend

(***************************************************************************)
(* MonitorUI driven directly: status and log updates, renders, and the     *)
(* operator's keys (cli.py 260-347 and the handlers they call).            *)
(***************************************************************************)
\* Nothing but the dashboard changes.
UiQuiet == UNCHANGED <<statusVars, pollerVars, tailVars, lt, notif, pending, starts, ctl, call, session>>

\* The status the dashboard is handed when it is driven directly.
UiStatuses == {"RUNNING"}

\* The jobs the dashboard tracks.
Tracked(u) == DictKeySet(u.job_data)

\* cli.py 181-187 left out: the selection stays as it is.
select_after_remove_keeps(u, job_id) == u

\* cli.py 181-187: after the removal of the job on display another job is
\* chosen, the first of the remaining ones.
select_after_remove(u, job_id) ==
    IF u.current_job_id = job_id
    THEN IF get_job_ids(u) # <<>>
         THEN set_current_job(u, Head(get_job_ids(u)))
         ELSE [u EXCEPT !.current_job_id = NoJob]
    ELSE u

UiUpdateJobStatus ==
    /\ \E j \in Jobs, s \in UiStatuses : ui' = update_job_status(ui, j, s, NoInfo)
    /\ UiQuiet

\* New text for a stream of a tracked job.
UiUpdateLog ==
    /\ \E j \in Tracked(ui), s \in Streams, chunk \in LogChunks :
        /\ LogLen(update_log(ui, j, s, chunk), MaxJob) <= MaxLogLen
        /\ ui' = update_log(ui, j, s, chunk)
    /\ UiQuiet

\* One refresh of the display (cli.py 228-233).
UiRender ==
    /\ ui' = render_output_panel(ui)
    /\ UiQuiet

\* Arrow keys scroll by one line, PageUp and PageDown by ten.
UiScrollUp ==
    /\ \E n \in {1, 10} : ui' = scroll_up(ui, n)
    /\ UiQuiet

UiScrollDown ==
    /\ \E n \in {1, 10} : ui' = scroll_down(ui, n)
    /\ UiQuiet

\* End
UiScrollToBottom ==
    /\ ui' = scroll_to_bottom(ui)
    /\ UiQuiet

\* Home
UiScrollToTop ==
    /\ ui' = scroll_to_top(ui)
    /\ UiQuiet

\* Tab
UiSwitchFocus ==
    /\ ui' = switch_focus(ui)
    /\ UiQuiet

\* q
UiExitScrollMode ==
    /\ ui.current_job_id # NoJob
    /\ ui' = exit_scroll_mode(ui, ui.current_job_id, ui.focused_panel)
    /\ UiQuiet

\* n
UiNextJob ==
    /\ ui' = switch_to_next_job(ui)
    /\ UiQuiet

\* p
UiPreviousJob ==
    /\ ui' = switch_to_previous_job(ui)
    /\ UiQuiet

\* d: the job on display is removed (cli.py 168-187, the dashboard's part).
UiRemoveJob ==
    /\ ui.current_job_id \in Tracked(ui)
    /\ ui' = select_after_remove(remove_job(ui, ui.current_job_id), ui.current_job_id)
    /\ UiQuiet

UiNext ==
    \/ UiUpdateJobStatus
    \/ UiUpdateLog
    \/ UiRender
    \/ UiScrollUp
    \/ UiScrollDown
    \/ UiScrollToBottom
    \/ UiScrollToTop
    \/ UiSwitchFocus
    \/ UiExitScrollMode
    \/ UiNextJob
    \/ UiPreviousJob
    \/ UiRemoveJob

(***************************************************************************)
(* MonitorController (cli.py): the program assembled.                      *)
(***************************************************************************)
\* No function called yet.
NoCall == [fn |-> "none", args |-> <<>>, result |-> <<>>]

\* Before run: no keyboard thread, the terminal as the shell left it, and
\* no attribute _terminal_settings.
NoSession ==
    [main |-> "none", handler |-> FALSE, kb |-> "none", tty |-> "normal",
     terminal_settings |-> "unset", cause |-> "none"]

\* Before Controller.start_monitoring.
CtlIdle ==
    /\ ctl = [pc |-> "init", todo |-> <<>>]
    /\ call = NoCall
    /\ session = NoSession

\* cli.py 67-69: every job is shown as UNKNOWN.
RECURSIVE show_jobs(_, _)
show_jobs(u, job_ids) ==
    IF job_ids = <<>> THEN u
    ELSE show_jobs(update_job_status(u, Head(job_ids), "UNKNOWN", NoInfo), Tail(job_ids))

\* The job lists the program is started with: one job id on the command
\* line.
StartLists == {l \in JobLists : Len(l) = 1}

\* Controller.start_monitoring up to the call of the StatusMonitor
\* (cli.py 61-97).
ControllerStart ==
    /\ ctl.pc = "init"
    /\ \E job_ids \in StartLists :
        /\ ui' = set_current_job(show_jobs(ui, job_ids), Head(job_ids))
        /\ start_monitoring(job_ids, "controller")
        /\ ctl' = [pc |-> "initial", todo |-> job_ids]
    /\ UNCHANGED <<statusVars, tailVars, lt, notif, pending, starts, call, session>>

\* The first fetch for the next job (cli.py 100-126): the queries raise
\* and the job is skipped, or the dashboard and the tailer get what the
\* status callback gives them. After the last job, running = True.
ControllerInitial ==
    /\ ctl.pc = "initial"
    /\ api = "ready"
    /\ \/ UNCHANGED worldVars
       \/ \E a \in SchedulerAnswers :
            LET s == get_job_status(a.squeue.rc, a.squeue.out, a.sacct.rc, a.sacct.out)
                w == status_callback(World, Head(ctl.todo), s, a.info)
            IN  /\ needs_lock(a.info) => lt_lock = "free"
                /\ Fits(w)
                /\ SetWorld(w)
    /\ ctl' = [pc |-> IF Tail(ctl.todo) = <<>> THEN "running" ELSE "initial",
               todo |-> Tail(ctl.todo)]
    /\ UNCHANGED <<statusVars, pollerVars, tailVars, call, session>>

\* The controller, the poll loop of the StatusMonitor it starts, the jobs
\* writing their files and the observers of the files it registers. The
\* controller never calls LogTailer.start_monitoring, so the tailer has no
\* poll thread.
Next ==
    \/ ControllerStart
    \/ StartRest
    \/ ControllerInitial
    \/ MonitorLoop
    \/ CreateFile
    \/ FileAppend
    \/ OnModified
    \/ NotifyEnds

(***************************************************************************)
(* The specifications.                                                     *)
(***************************************************************************)
\* The tailer and the dashboard just constructed, the controller not
\* started.
RestIdle ==
    /\ lt = NewTailer(TRUE)
    /\ TailIdle
    /\ ui = UIInit
    /\ CtlIdle

Init ==
    /\ StatusIdle
    /\ PollerInit
    /\ TailInit
    /\ ui = UIInit
    /\ CtlIdle

\* The assembled program.
Spec == Init /\ [][Next]_vars

\* get_job_status on every answer of the two commands.
StatusAlone == StatusInit /\ PollerInit /\ RestIdle

SpecStatus == StatusAlone /\ [][ReportStatus]_vars

PollerIdle == StatusIdle /\ PollerInit /\ RestIdle

\* The StatusMonitor and its clients.
SpecPoller == PollerIdle /\ [][PollerNext]_vars

SpecLifecycle == PollerIdle /\ [][LifecycleNext]_vars

\* The LogTailer, its clients and the files.
SpecTail == Init /\ [][TailNext]_vars

\* The dashboard and its operator.
SpecUI == PollerIdle /\ [][UiNext]_vars

\* A tailer constructed without watchdog (log_tailer.py 101).
ReaderInit == Init /\ ~lt.use_watchdog

\* The handlers' read protocol by itself.
SpecReader == ReaderInit /\ [][ReaderNext]_vars

\* The job's output file is deleted, as when a job is requeued and its
\* output removed; an observer of the file is notified.
FileDelete ==
    /\ \E l \in Files :
        /\ fs[l].exists
        /\ Len(starts[l]) < MaxCallbacks
        /\ fs' = [fs EXCEPT ![l] = [exists |-> FALSE, text |-> <<>>]]
        /\ pending' = IF l \in lt.observers THEN pending \cup {l} ELSE pending
    /\ UNCHANGED <<lt_lock, poll, lt, notif, starts, ui>>
    /\ TailQuiet

\* The handlers read by one thread only while their files appear, grow and
\* are deleted.
MissingNext ==
    \/ AddFile
    \/ ReaderCheck
    \/ CreateFile
    \/ FileAppend
    \/ FileDelete

SpecMissing == ReaderInit /\ [][MissingNext]_vars

\* Where a check of a file that exists can fail: os.path.getsize
\* (log_tailer.py 60) or the open and read of lines 66-71.
ReadFailures == {"getsize", "open"}

\* _read_new_content (log_tailer.py 52-82) when the file exists and cannot
\* be read: the exception is caught at lines 77-82. The reset of line 64
\* comes before the open.
check_fails(w, label, at) ==
    IF at = "getsize" THEN w
    ELSE LET h == DictGet(w.lt.handlers, label)
             hs == set_last_position(w.lt.handlers, label, read_start(h, fs[label]))
         IN  [w EXCEPT !.lt.handlers =
                 DictPut(hs, label,
                         [DictGet(hs, label) EXCEPT !.seen_size = Len(fs[label].text)])]

\* handler.check_for_updates() of the next handler, its file being there
\* and not readable (log_tailer.py 177-181): the poll thread goes on to the
\* next handler.
PollCheckFails ==
    /\ poll.pc = "check"
    /\ fs[Head(poll.todo)].exists
    /\ \E at \in ReadFailures : SetWorld(check_fails(World, Head(poll.todo), at))
    /\ poll' = PollAdvance([poll EXCEPT !.todo = Tail(poll.todo)])
    /\ lt_lock' = IF Tail(poll.todo) = <<>> THEN "free" ELSE lt_lock
    /\ UNCHANGED fs
    /\ TailQuiet

\* The tailer without watchdog: its poll thread and files that appear,
\* grow, are cut, and at times cannot be read.
UnreadableNext ==
    \/ TailStart
    \/ PollTop
    \/ PollCheck
    \/ PollCheckFails
    \/ PollCbEnds
    \/ CreateFile
    \/ FileAppend
    \/ FileTruncate

SpecUnreadable == ReaderInit /\ [][UnreadableNext]_vars

(***************************************************************************)
(* update_log and _get_visible_lines called by themselves.                 *)
(***************************************************************************)
\* The lines a stream has, at most, when its window is computed.
MaxLines == 7

\* The appends made to one stream, at most.
MaxAppends == 3

\* The buffers' lines and the offsets _get_visible_lines is called with.
WindowLines == SeqsUpTo({<<"a">>, <<>>}, MaxLines)

WindowOffsets == (0 - 1)..(MaxLines + 1)

\* The texts appended to a stream: with and without a newline at the end.
AppendChunks == {<<"a">>, <<"\n">>, <<"b", "\n">>, <<"a", "\n", "b">>}

\* update_log (ui_renderer.py 70-176) for each text in turn.
RECURSIVE append_all(_, _, _, _)
append_all(u, job_id, log_type, chunks) ==
    IF chunks = <<>> THEN u
    ELSE append_all(update_log(u, job_id, log_type, Head(chunks)),
                    job_id, log_type, Tail(chunks))

\* Nothing but the call changes.
CallQuiet == UNCHANGED <<statusVars, pollerVars, worldVars, tailVars, ctl, session>>

\* _get_visible_lines (ui_renderer.py 291-316) on some lines and offset,
\* with the height of a panel.
CallGetVisibleLines ==
    /\ call = NoCall
    /\ \E lines \in WindowLines, o \in WindowOffsets :
           call' = [fn |-> "get_visible_lines",
                    args |-> <<lines, o, max_lines_per_panel>>,
                    result |-> get_visible_lines(lines, o, max_lines_per_panel)]
    /\ CallQuiet

\* update_log (ui_renderer.py 70-176) on a dashboard just constructed, once
\* for each text of a sequence of texts.
CallUpdateLog ==
    /\ call = NoCall
    /\ \E chunks \in SeqsUpTo(AppendChunks, MaxAppends) \ {<<>>} :
           call' = [fn |-> "update_log",
                    args |-> chunks,
                    result |-> append_all(UIInit, 1, "stdout", chunks)]
    /\ CallQuiet

CallNext ==
    \/ CallGetVisibleLines
    \/ CallUpdateLog

\* The two functions of the dashboard on their inputs.
SpecCall == PollerIdle /\ [][CallNext]_vars

(***************************************************************************)
(* _keyboard_input_handler (cli.py 260-347) as a function of what the      *)
(* operator types: the characters in their order, with a Pause where the   *)
(* next character comes later than the timeouts of the select calls        *)
(* (0.2 s and 0.05 s, cli.py 279, 284). Characters with no Pause between   *)
(* them are there to be read one after the other: select reports a         *)
(* character as soon as it has arrived and until it is read.               *)
(***************************************************************************)
\* The keys typed in one call, at most.
MaxKeys == 2

Pause == "pause"

\* cli.py 281-287: up to n characters are read, as long as select reports
\* one within 0.05 s.
RECURSIVE read_available(_, _)
read_available(s, n) ==
    IF n = 0 \/ s = <<>> THEN <<>>
    ELSE IF Head(s) = Pause THEN <<>>
    ELSE <<Head(s)>> \o read_available(Tail(s), n - 1)

\* str.startswith
startswith(seq, prefix) ==
    /\ Len(seq) >= Len(prefix)
    /\ SubSeq(seq, 1, Len(prefix)) = prefix

\* cli.py 289-316: the handler called for the characters read after ESC,
\* none for a sequence that matches no branch.
escape_action(seq) ==
    IF startswith(seq, <<"[", "A">>) THEN <<"scroll_up_1">>
    ELSE IF startswith(seq, <<"[", "B">>) THEN <<"scroll_down_1">>
    ELSE IF startswith(seq, <<"[", "5", "~">>) THEN <<"scroll_up_10">>
    ELSE IF startswith(seq, <<"[", "6", "~">>) THEN <<"scroll_down_10">>
    ELSE IF startswith(seq, <<"[", "H">>) THEN <<"scroll_to_top">>
    ELSE IF startswith(seq, <<"[", "F">>) THEN <<"scroll_to_bottom">>
    ELSE IF startswith(seq, <<"[", "1", ";", "5">>)
    THEN IF Len(seq) > 4 /\ seq[5] = "A" THEN <<"scroll_up_10">>
         ELSE IF Len(seq) > 4 /\ seq[5] = "B" THEN <<"scroll_down_10">>
         ELSE <<>>
    ELSE IF startswith(seq, <<"O">>)
    THEN IF Len(seq) > 1 /\ seq[2] = "A" THEN <<"scroll_up_1">>
         ELSE IF Len(seq) > 1 /\ seq[2] = "B" THEN <<"scroll_down_1">>
         ELSE <<>>
    ELSE <<>>

\* cli.py 317-335: the handler called for a character that is not ESC;
\* _handle_add_job (cli.py 408-413) does nothing.
key_action(char) ==
    IF char = "\t" THEN <<"switch_focus">>
    ELSE IF char \in {"q", "Q"} THEN <<"exit_scroll_mode">>
    ELSE IF char \in {"d", "D"} THEN <<"remove_job">>
    ELSE IF char \in {"n", "N"} THEN <<"next_job">>
    ELSE IF char \in {"p", "P"} THEN <<"previous_job">>
    ELSE <<>>

\* The loop of cli.py 269-341 on the characters s: the handlers it calls,
\* in their order. ETX is the character \x03, after which the loop ends.
RECURSIVE keyboard_input(_)
keyboard_input(s) ==
    IF s = <<>> THEN <<>>
    ELSE IF Head(s) = Pause THEN keyboard_input(Tail(s))
    ELSE IF Head(s) = "ESC"
    THEN LET seq == read_available(Tail(s), 5)
         IN  escape_action(seq)
                 \o keyboard_input(SubSeq(Tail(s), Len(seq) + 1, Len(Tail(s))))
    ELSE IF Head(s) = "ETX" THEN <<"stop">>
    ELSE key_action(Head(s)) \o keyboard_input(Tail(s))

\* The keys of the dashboard with the characters a terminal sends for them
\* and the action each stands for.
RecognisedKeys ==
    {[chars |-> <<"ESC", "[", "A">>, action |-> <<"scroll_up_1">>],
     [chars |-> <<"ESC", "[", "B">>, action |-> <<"scroll_down_1">>],
     [chars |-> <<"ESC", "[", "5", "~">>, action |-> <<"scroll_up_10">>],
     [chars |-> <<"ESC", "[", "6", "~">>, action |-> <<"scroll_down_10">>],
     [chars |-> <<"ESC", "[", "H">>, action |-> <<"scroll_to_top">>],
     [chars |-> <<"ESC", "[", "F">>, action |-> <<"scroll_to_bottom">>],
     [chars |-> <<"\t">>, action |-> <<"switch_focus">>],
     [chars |-> <<"n">>, action |-> <<"next_job">>],
     [chars |-> <<"p">>, action |-> <<"previous_job">>],
     [chars |-> <<"d">>, action |-> <<"remove_job">>],
     [chars |-> <<"q">>, action |-> <<"exit_scroll_mode">>]}

\* A key the dashboard has no use for, an escape sequence no branch
\* matches, and an escape sequence that stops after its second character.
OtherKeys ==
    {[chars |-> <<"x">>, action |-> <<>>],
     [chars |-> <<"ESC", "[", "Z">>, action |-> <<>>],
     [chars |-> <<"ESC", "[", Pause>>, action |-> <<>>]}

\* What is typed: keys, each followed by a pause or by the next key at
\* once.
Typed == SeqsUpTo([key : RecognisedKeys \cup OtherKeys, pause : BOOLEAN], MaxKeys)

\* The characters of what is typed.
RECURSIVE typed_chars(_)
typed_chars(t) ==
    IF t = <<>> THEN <<>>
    ELSE Head(t).key.chars \o (IF Head(t).pause THEN <<Pause>> ELSE <<>>)
             \o typed_chars(Tail(t))

\* The keyboard thread reads what the operator types.
CallKeyboardInput ==
    /\ call = NoCall
    /\ \E t \in Typed \ {<<>>} :
           call' = [fn |-> "keyboard_input",
                    args |-> t,
                    result |-> keyboard_input(typed_chars(t))]
    /\ CallQuiet

KeysNext == CallKeyboardInput

SpecKeys == PollerIdle /\ [][KeysNext]_vars

(***************************************************************************)
(* MonitorController (cli.py): the discovery of new jobs by the render     *)
(* loop's update_callback.                                                 *)
(***************************************************************************)
\* get_all_job_ids_from_sacct (utils.py 142-178): job ids without
\* repetition, the greatest first.
DiscoverLists ==
    {l \in JobLists : \A i, k \in 1..Len(l) : i < k => l[i] > l[k]}

\* add_job_to_monitor (cli.py 130-166), the dashboard's part, for a job
\* that is not tracked: the job is shown as UNKNOWN, and then with what the
\* first fetch gives unless it raises.
controller_add_job(u, j, ok, a) ==
    LET u1 == update_job_status(u, j, "UNKNOWN", NoInfo)
    IN  IF ok
        THEN update_job_status(
                 u1, j, get_job_status(a.squeue.rc, a.squeue.out, a.sacct.rc, a.sacct.out),
                 a.info)
        ELSE u1

\* cli.py 238-240: the new jobs one after the other.
RECURSIVE controller_add_jobs(_, _, _, _)
controller_add_jobs(u, new, ok, a) ==
    IF new = <<>> THEN u
    ELSE controller_add_jobs(controller_add_job(u, Head(new), ok, a), Tail(new), ok, a)

\* The update_callback of run without the test of cli.py 232: every visible
\* job is added, tracked or not.
discover_all(u, visible, ok, a) ==
    LET u1 == controller_add_jobs(u, visible, ok, a)
    IN  IF visible # <<>> /\ u.current_job_id # NoJob /\ u.current_job_id \in Tracked(u1)
        THEN set_current_job(u1, u.current_job_id)
        ELSE u1

\* The update_callback of run (cli.py 212-246) when a discovery is due,
\* on the dashboard: the visible jobs that are not tracked are added and
\* the job that was on display is put back on display.
discover(u, visible, ok, a) ==
    LET new == SelectSeq(visible, LAMBDA j : j \notin Tracked(u))
        u1 == controller_add_jobs(u, new, ok, a)
    IN  IF new # <<>> /\ u.current_job_id # NoJob /\ u.current_job_id \in Tracked(u1)
        THEN set_current_job(u1, u.current_job_id)
        ELSE u1

\* StatusMonitor.add_job_to_monitor (status_monitor.py 98-108) for each of
\* the jobs js, with the controller's callback.
add_jobs_to_monitor(js) ==
    /\ api = "ready"
    /\ status_callbacks' =
           [j \in DOMAIN status_callbacks \cup Range(js) |->
               IF j \in Range(js) THEN "controller" ELSE status_callbacks[j]]
    /\ current_statuses' = register_jobs(current_statuses, js)
    /\ known' = [j \in DOMAIN known |-> IF j \in Range(js) THEN None ELSE known[j]]
    /\ removed' = removed \ Range(js)
    /\ stopped' = (stopped /\ js = <<>>)
    /\ thr' = [t \in Threads |->
                [thr[t] EXCEPT !.lastFailed = IF @ \in Range(js) THEN NoJob ELSE @]]
    /\ UNCHANGED <<sm_monitoring, sm_stop_event, monitor_thread, api, api_jobs>>

\* What the first fetch of a discovered job answers: a job that runs, and
\* one that has ended with its output written.
DiscoverAnswers ==
    {a \in SchedulerAnswers :
        get_job_status(a.squeue.rc, a.squeue.out, a.sacct.rc, a.sacct.out)
            \in {"RUNNING", "COMPLETED"} /\ a.info.elapsed = "00:00:02"}

\* One discovery (cli.py 224-246) between two refreshes of the display.
DiscoveryTick ==
    /\ \E visible \in DiscoverLists, ok \in BOOLEAN, a \in DiscoverAnswers :
        /\ ui' = discover(ui, visible, ok, a)
        /\ add_jobs_to_monitor(SelectSeq(visible, LAMBDA j : j \notin Tracked(ui)))
    /\ UNCHANGED <<statusVars, tailVars, lt, notif, pending, starts, ctl, call, session>>

\* The dashboard with its operator and the discovery of jobs.
DiscoverNext ==
    \/ DiscoveryTick
    \/ UiUpdateLog
    \/ UiScrollUp
    \/ UiSwitchFocus
    \/ UiNextJob
    \/ UiRemoveJob

SpecDiscover == PollerIdle /\ [][DiscoverNext]_vars

(***************************************************************************)
(* MonitorController (cli.py): the removal of the job on display while the *)
(* poll loop of the StatusMonitor runs. The loop's turn for a job is taken *)
(* step by step here: the call of the callback and what the callback does  *)
(* are two steps, and the removal can come between them. Nothing in        *)
(* status_monitor.py or cli.py holds a lock across them.                   *)
(***************************************************************************)
\* status_monitor.py 66-80: both queries return, the status is compared
\* with the table, and with an unchanged status the callback is called.
QueryReturnsAndCalls(t) ==
    /\ thr[t].pc = "query"
    /\ \E a \in SchedulerAnswers :
        LET s == get_job_status(a.squeue.rc, a.squeue.out, a.sacct.rc, a.sacct.out)
            r == [thr[t] EXCEPT !.status = s, !.info = a.info]
        IN  IF ~DictHas(current_statuses, r.job)
            THEN /\ thr' = [thr EXCEPT ![t] = on_exception(r)]
                 /\ UNCHANGED known
            ELSE IF status_changed(s, DictGet(current_statuses, r.job))
            THEN /\ thr' = [thr EXCEPT ![t] = [r EXCEPT !.pc = "store", !.changed = TRUE]]
                 /\ UNCHANGED known
            ELSE /\ thr' = [thr EXCEPT ![t] = InvokeCallback(r)]
                 /\ known' = [known EXCEPT ![r.job] = s]
    /\ UNCHANGED <<sm_monitoring, sm_stop_event, monitor_thread, status_callbacks,
                   current_statuses, api, api_jobs, removed, stopped>>
    /\ Quiet

\* status_monitor.py 73-80: the entry is replaced (or created) and the
\* callback is called.
StoreAndCalls(t) ==
    /\ thr[t].pc = "store"
    /\ current_statuses' =
           DictPut(current_statuses, thr[t].job,
                   [key |-> thr[t].job, status |-> thr[t].status, info |-> thr[t].info])
    /\ known' = [known EXCEPT ![thr[t].job] = thr[t].status]
    /\ thr' = [thr EXCEPT ![t] = InvokeCallback(@)]
    /\ UNCHANGED <<sm_monitoring, sm_stop_event, monitor_thread, status_callbacks,
                   api, api_jobs, removed, stopped>>
    /\ Quiet

\* The controller's status_callback (cli.py 76-95) runs with the arguments
\* it was called with, and returns.
CallbackRuns(t) ==
    /\ thr[t].pc = "callback"
    /\ LET w == status_callback(World, thr[t].cbArgs[1], thr[t].cbArgs[2], thr[t].cbArgs[3])
       IN  /\ needs_lock(thr[t].cbArgs[3]) => lt_lock = "free"
           /\ Fits(w)
           /\ SetWorld(w)
    /\ thr' = [thr EXCEPT ![t] =
                 [@ EXCEPT !.pc = "updinfo",
                           !.lastFailed = IF @ = thr[t].job THEN NoJob ELSE @]]
    /\ UNCHANGED <<sm_monitoring, sm_stop_event, monitor_thread, status_callbacks,
                   current_statuses, api, api_jobs, known, removed, stopped>>
    /\ UNCHANGED <<statusVars, tailVars, ctl, call, session>>

\* d, _handle_remove_job (cli.py 415-421): remove_job_from_monitor
\* (cli.py 168-187) for the job on display, from its first line to its
\* last: the StatusMonitor, the dashboard with the choice of another job,
\* and the two files of the job.
ControllerRemove ==
    /\ ctl.pc = "running"
    /\ ui.current_job_id \in Tracked(ui)
    /\ lt_lock = "free"
    /\ LET j == ui.current_job_id
           w1 == [World EXCEPT !.ui = select_after_remove(remove_job(ui, j), j)]
       IN  /\ remove_job_from_monitor(j)
           /\ SetWorld(remove_file(remove_file(w1, <<"stdout", j>>), <<"stderr", j>>))
    /\ UNCHANGED <<statusVars, tailVars, ctl, call, session>>

\* The poll loop with the callback as a step of its own.
MonitorLoopCalls ==
    \E t \in Threads :
        \/ LoopTop(t)
        \/ QueryRaises(t)
        \/ QueryReturnsAndCalls(t)
        \/ StoreAndCalls(t)
        \/ CallbackRuns(t)
        \/ UpdateInfo(t)

\* The controller started on its jobs, the poll loop, and the operator who
\* removes the job on display.
RemoveNext ==
    \/ ControllerStart
    \/ StartRest
    \/ ControllerInitial
    \/ MonitorLoopCalls
    \/ ControllerRemove

SpecRemove == PollerIdle /\ [][RemoveNext]_vars

(***************************************************************************)
(* The watch command without job ids (cli.py 458-483): the controller is   *)
(* started on the jobs visible at that time, none perhaps, with the        *)
(* discovery of jobs enabled.                                              *)
(***************************************************************************)
\* Controller.start_monitoring with an empty list (cli.py 61-64): it
\* returns before anything is started, and running stays False.
ControllerStartEmpty ==
    /\ ctl.pc = "init"
    /\ ctl' = [pc |-> "returned", todo |-> <<>>]
    /\ UNCHANGED <<statusVars, pollerVars, worldVars, tailVars, call, session>>

\* A discovery in the render loop of run, after start_monitoring has
\* returned (cli.py 478-479, 224-246).
WatchTick ==
    /\ ctl.pc \in {"running", "returned"}
    /\ DiscoveryTick

WatchNext ==
    \/ ControllerStart
    \/ ControllerStartEmpty
    \/ StartRest
    \/ ControllerInitial
    \/ WatchTick
    \/ MonitorLoop

SpecWatch == PollerIdle /\ [][WatchNext]_vars

\* The threads that can take a step take one in the end, and the scheduler
\* does not fail for ever on the queries for one job.
WatchFairness ==
    /\ WF_vars(StartRest)
    /\ WF_vars(ControllerInitial)
    /\ WF_vars(MonitorLoop)
    /\ \A j \in Jobs : SF_vars(\E t \in Threads : thr[t].job = j /\ QueryReturns(t))

WatchLive == PollerIdle /\ [][WatchNext]_vars /\ WatchFairness

(***************************************************************************)
(* MonitorUI.update_log (ui_renderer.py 70-176) called by the observer     *)
(* threads of the tailer, one thread per registered file, the stdout and   *)
(* the stderr file of a job among them. update_log takes no lock           *)
(* (ui_renderer.py has none), so its statements interleave with those of   *)
(* the call in another thread: the test of line 79, the creation of line   *)
(* 80 and the rest are steps of their own.                                 *)
(***************************************************************************)
\* How many texts an observer delivers.
MaxDeliveries == 2

\* ui_renderer.py 79: `if job_id not in self.log_data`, in the observer
\* thread of the label, which has read a text from its file.
AppendTests(l) ==
    /\ notif[l].pc = "idle"
    /\ Len(starts[l]) < MaxDeliveries
    /\ \E chunk \in FileChunks :
        notif' = [notif EXCEPT ![l] =
                    [IdleReader EXCEPT !.pc = IF l[2] \in DOMAIN ui.log_data
                                              THEN "append" ELSE "create",
                                       !.start = Len(starts[l]) * Len(chunk),
                                       !.text = chunk]]
    /\ UNCHANGED <<lt, pending, starts, ui>>
    /\ UNCHANGED <<statusVars, pollerVars, tailVars, ctl, call, session>>

\* ui_renderer.py 80: self.log_data[job_id] = {'stdout': '', 'stderr': ''}
AppendCreates(l) ==
    /\ notif[l].pc = "create"
    /\ ui' = [ui EXCEPT !.log_data = FPut(@, l[2], [stdout |-> <<>>, stderr |-> <<>>])]
    /\ notif' = [notif EXCEPT ![l].pc = "append"]
    /\ UNCHANGED <<lt, pending, starts>>
    /\ UNCHANGED <<statusVars, pollerVars, tailVars, ctl, call, session>>

\* ui_renderer.py 82-176: the text is appended, the lines are rebuilt and
\* the stream follows its end or stays; update_log returns. History: the
\* offset of the text in its file.
AppendWrites(l) ==
    /\ notif[l].pc = "append"
    /\ l[2] \in DOMAIN ui.log_data
    /\ ui' = update_log(ui, l[2], l[1], notif[l].text)
    /\ starts' = [starts EXCEPT ![l] = Append(@, notif[l].start)]
    /\ notif' = [notif EXCEPT ![l] = IdleReader]
    /\ UNCHANGED <<lt, pending>>
    /\ UNCHANGED <<statusVars, pollerVars, tailVars, ctl, call, session>>

\* The observer threads deliver to the dashboard.
AppendNext ==
    \E l \in Labels :
        \/ AppendTests(l)
        \/ AppendCreates(l)
        \/ AppendWrites(l)

SpecAppend == PollerIdle /\ [][AppendNext]_vars

(***************************************************************************)
(* MonitorController.run (cli.py 195-258): the render loop in the main     *)
(* thread, the keyboard thread, the terminal they share, and the ways the  *)
(* session ends. self.running is ctl.pc = "running"; stop() leaves         *)
(* ctl.pc = "stopped". The keyboard thread and the poll thread are daemon  *)
(* threads: they take no step once the main thread has left run and the    *)
(* process has ended.                                                      *)
(***************************************************************************)
\* A step that changes the session alone.
SessionOnly == UNCHANGED <<statusVars, pollerVars, worldVars, tailVars, ctl, call>>

\* run up to the render loop (cli.py 195-210): the signal handlers are set
\* and, with a terminal as standard input, the keyboard thread is started.
RunStarts ==
    /\ ctl.pc = "running"
    /\ session.main = "none"
    /\ \E isatty \in BOOLEAN :
        session' = [session EXCEPT !.main = "update",
                                   !.kb = IF isatty THEN "start" ELSE "none"]
    /\ SessionOnly

\* run_live (ui_renderer.py 458-470): `while True`, the update callback and
\* then the refresh of the display, whatever self.running is.
RenderLoop ==
    /\ session.main \in {"update", "render"}
    /\ session' = [session EXCEPT !.main = IF @ = "update" THEN "render" ELSE "update"]
    /\ SessionOnly

\* SIGINT or SIGTERM arrives: signal_handler (cli.py 35-38) runs in the main
\* thread.
Signal ==
    /\ session.main \in {"update", "render"}
    /\ session.cause = "none"
    /\ session' = [session EXCEPT !.main = "cleanup", !.handler = TRUE, !.cause = "signal"]
    /\ SessionOnly

\* The render loop raises: the `finally` of run (cli.py 256-258).
Fault ==
    /\ session.main \in {"update", "render"}
    /\ session.cause = "none"
    /\ session' = [session EXCEPT !.main = "cleanup", !.cause = "fault"]
    /\ SessionOnly

\* _cleanup_terminal (cli.py 43-51): the settings stored by the keyboard
\* thread, if any, are written back and the attribute is set to None.
MainCleanup ==
    /\ session.main = "cleanup"
    /\ session' = IF session.terminal_settings = "saved"
                  THEN [session EXCEPT !.main = "stop", !.tty = "normal",
                                       !.terminal_settings = "none"]
                  ELSE [session EXCEPT !.main = "stop"]
    /\ SessionOnly

\* stop (cli.py 189-192): running = False and StatusMonitor.stop_monitoring
\* up to its join.
controller_stop ==
    /\ api = "ready"
    /\ ctl' = [ctl EXCEPT !.pc = "stopped"]
    /\ StopBegin("stop_join")
    /\ UNCHANGED <<api_jobs, statusVars, worldVars, tailVars, call>>

\* stop (cli.py 193), the join of the StatusMonitor over:
\* LogTailer.stop_monitoring.
controller_stop_tailer ==
    /\ api = "ready"
    /\ lt_lock = "free"
    /\ SetWorld(tail_stop_monitoring(World))
    /\ UNCHANGED <<statusVars, pollerVars, tailVars, ctl, call>>

MainStop ==
    /\ session.main = "stop"
    /\ controller_stop
    /\ session' = [session EXCEPT !.main = "join"]

\* The end of stop in the main thread: sys.exit(0) of the signal handler
\* (cli.py 38) raises SystemExit into the `finally` of run, and the
\* `finally` is followed by the end of the process.
MainStopEnds ==
    /\ session.main = "join"
    /\ controller_stop_tailer
    /\ session' = [session EXCEPT !.main = IF session.handler THEN "cleanup" ELSE "exited",
                                   !.handler = FALSE]

\* _keyboard_input_handler (cli.py 264-265): termios.tcgetattr.
KbSave ==
    /\ session.main # "exited"
    /\ session.kb = "start"
    /\ session' = [session EXCEPT !.kb = "store"]
    /\ SessionOnly

\* cli.py 266: self._terminal_settings = old_settings
KbStore ==
    /\ session.main # "exited"
    /\ session.kb = "store"
    /\ session' = [session EXCEPT !.kb = "setcbreak", !.terminal_settings = "saved"]
    /\ SessionOnly

\* cli.py 267: tty.setcbreak
KbSetCbreak ==
    /\ session.main # "exited"
    /\ session.kb = "setcbreak"
    /\ session' = [session EXCEPT !.kb = "loop", !.tty = "cbreak"]
    /\ SessionOnly

\* cli.py 269: `while self.running` is false.
KbLoopEnds ==
    /\ session.main # "exited"
    /\ session.kb = "loop"
    /\ ctl.pc # "running"
    /\ session' = [session EXCEPT !.kb = "finally"]
    /\ SessionOnly

\* cli.py 336-338: the character \x03 is read, the key that ends the
\* session.
KbExitKey ==
    /\ session.main # "exited"
    /\ session.kb = "loop"
    /\ ctl.pc = "running"
    /\ session.cause = "none"
    /\ session' = [session EXCEPT !.kb = "stop", !.cause = "key"]
    /\ SessionOnly

\* cli.py 337: self.stop() in the keyboard thread.
KbStop ==
    /\ session.main # "exited"
    /\ session.kb = "stop"
    /\ controller_stop
    /\ session' = [session EXCEPT !.kb = "join"]

\* The end of stop in the keyboard thread, and the break of cli.py 338.
KbStopEnds ==
    /\ session.main # "exited"
    /\ session.kb = "join"
    /\ controller_stop_tailer
    /\ session' = [session EXCEPT !.kb = "finally"]

\* The `finally` of the keyboard thread (cli.py 342-347): the settings it
\* read are written back.
KbFinally ==
    /\ session.main # "exited"
    /\ session.kb = "finally"
    /\ session' = [session EXCEPT !.kb = "done", !.tty = "normal",
                                   !.terminal_settings = "none"]
    /\ SessionOnly

\* The poll thread of the StatusMonitor while the process lives.
PollLoop == session.main # "exited" /\ MonitorLoop

\* The join of StatusMonitor.stop_monitoring inside stop.
StopJoins == JoinReturns \/ JoinTimesOut

KeyboardThread ==
    \/ KbSave
    \/ KbStore
    \/ KbSetCbreak
    \/ KbLoopEnds
    \/ KbStop
    \/ KbStopEnds
    \/ KbFinally

MainThread ==
    \/ RenderLoop
    \/ MainCleanup
    \/ MainStop
    \/ MainStopEnds

\* A session of the program from the start of the controller to the end of
\* the process.
SessionNext ==
    \/ ControllerStart
    \/ StartRest
    \/ ControllerInitial
    \/ RunStarts
    \/ MainThread
    \/ Signal
    \/ Fault
    \/ KeyboardThread
    \/ KbExitKey
    \/ StopJoins
    \/ PollLoop

SpecSession == PollerIdle /\ [][SessionNext]_vars

\* Every thread that can take a step takes one in the end: the operating
\* system schedules the main thread, the keyboard thread and the poll
\* thread, and the join of stop returns at the latest after its two
\* seconds. A signal, a fault and a key are not bound to happen.
SessionFairness ==
    /\ WF_vars(RunStarts)
    /\ WF_vars(StartRest)
    /\ WF_vars(ControllerInitial)
    /\ WF_vars(MainThread)
    /\ WF_vars(KeyboardThread)
    /\ WF_vars(StopJoins)
    /\ WF_vars(PollLoop)

SessionLive == PollerIdle /\ [][SessionNext]_vars /\ SessionFairness

(***************************************************************************)
(* The end of a session with LogTailer.stop_monitoring taken in steps: the *)
(* lock of log_tailer.py 106 is a threading.Lock, taken at line 191 and    *)
(* given back at line 197, and a signal handler (cli.py 35-38) runs in the *)
(* main thread on top of whatever frame the main thread is in, a frame of  *)
(* stop included. session.cause tells what a signal has interrupted:       *)
(* "in_handler" a handler, "in_finally" the `finally` of run.              *)
(***************************************************************************)
\* log_tailer.py 187-191: the flags are set and the lock is taken by the
\* main thread, the join of the StatusMonitor being over.
MainLocks ==
    /\ session.main = "join"
    /\ api = "ready"
    /\ lt_lock = "free"
    /\ lt_lock' = "main"
    /\ session' = [session EXCEPT !.main = "locked"]
    /\ UNCHANGED <<statusVars, pollerVars, worldVars, fs, poll, ctl, call>>

\* log_tailer.py 192-201: the observers are stopped, the dictionaries are
\* cleared and the lock is given back; stop returns. In a handler
\* sys.exit(0) follows (cli.py 38): SystemExit unwinds the frames below
\* the handler, into the `finally` of run, or out of it when the `finally`
\* was what the handler interrupted; after the `finally` the process ends.
MainUnlocks ==
    /\ session.main = "locked"
    /\ SetWorld(tail_stop_monitoring(World))
    /\ lt_lock' = "free"
    /\ session' =
         IF ~session.handler \/ session.cause = "in_finally"
         THEN [session EXCEPT !.main = "exited", !.handler = FALSE]
         ELSE [session EXCEPT !.main = "cleanup", !.handler = FALSE,
                              !.cause = IF @ = "in_handler" THEN "twice" ELSE @]
    /\ UNCHANGED <<statusVars, pollerVars, fs, poll, ctl, call>>

\* A second SIGINT or SIGTERM while the main thread is in the handler of
\* the first or in the `finally` of run, not inside a call of the
\* StatusMonitor: the handler starts again on top of that frame.
SignalAgain ==
    /\ session.main \in {"cleanup", "stop", "join", "locked"}
    /\ session.cause \in {"signal", "fault", "key"}
    /\ api = "ready"
    /\ session' = [session EXCEPT !.main = "cleanup", !.handler = TRUE,
                                  !.cause = IF session.handler THEN "in_handler"
                                            ELSE "in_finally"]
    /\ SessionOnly

\* The session with its signals.
SignalsNext ==
    \/ ControllerStart
    \/ StartRest
    \/ ControllerInitial
    \/ RunStarts
    \/ RenderLoop
    \/ Signal
    \/ Fault
    \/ MainCleanup
    \/ MainStop
    \/ StopJoins
    \/ MainLocks
    \/ MainUnlocks
    \/ SignalAgain
    \/ KeyboardThread
    \/ KbExitKey
    \/ PollLoop

SpecSignals == PollerIdle /\ [][SignalsNext]_vars

(***************************************************************************)
(* The program end to end: a log file on the dashboard.                    *)
(***************************************************************************)
\* s is an initial part of t.
IsPrefix(s, t) == Len(s) <= Len(t) /\ SubSeq(t, 1, Len(s)) = s

\* C1: for a tracked job whose output path the status poller's callback
\* has made known, the dashboard's buffer of the stream holds the text of
\* the file, each byte once and in file order, after any number of poll
\* cycles and tail checks: at any time it is an initial part of the file's
\* text (the files only grow).
C1_BufferIsFileText ==
    \A j \in DOMAIN ui.log_data :
        IsPrefix(ui.log_data[j]["stdout"], fs[<<"stdout", j>>].text)

(***************************************************************************)
(* MonitorUI: following the end of a stream.                               *)
(***************************************************************************)
\* The step appends to the buffer of the stream.
Appended(j, s) ==
    /\ j \in DOMAIN ui'.log_data
    /\ Len(ui'.log_data[j][s]) >
           (IF j \in DOMAIN ui.log_data THEN Len(ui.log_data[j][s]) ELSE 0)

\* C2: after every append to a stream that is PINNED (not in scroll mode),
\* of any tracked job, on display or not, the visible window computed for
\* the stream ends with the last line of the buffer.
C2_PinnedFollows ==
    [][\A j \in Jobs, s \in Streams :
          (Appended(j, s) /\ ~is_in_scroll_mode(ui, j, s)) =>
              visible_window(ui', j, s).end = total_lines(ui', j, s)]_vars

(***************************************************************************)
(* LogTailer: the checks of a file.                                        *)
(***************************************************************************)
\* C3: when a check by the observer and a check by the poll loop of the
\* same file overlap, no range of the file is delivered twice: the offsets
\* at which the texts delivered for one file start are strictly increasing.
C3_OffsetsIncrease ==
    \A l \in Files :
        \A i, k \in 1..Len(starts[l]) : i < k => starts[l][i] < starts[l][k]

\* C4: a file registered with add_file is checked by the poll loop at every
\* interval, also when there is no change notification at all: while a
\* file is registered and the tailer has no observers, its poll thread is
\* running.
C4_PollLoopChecks ==
    (~lt.use_watchdog /\ lt.handlers # <<>>) => poll.pc \notin {"none", "dead"}

(***************************************************************************)
(* StatusMonitor: the polling loop.                                        *)
(***************************************************************************)
\* The values the job in hand was just fetched with.
Fetched(t) == <<thr[t].job, thr[t].status, thr[t].info>>

\* C5: on every polling cycle, each tracked job whose status and info
\* queries succeed has its callback invoked with the values just fetched,
\* whether or not the status differs from the one of the cycle before: a
\* turn that reaches line 88 for a job registered throughout has invoked the
\* callback with exactly the fetched job id, status and info.
C5_CallbackEveryCycle ==
    \A t \in Threads :
        (thr[t].pc = "updinfo" /\ ~thr[t].gone) => thr[t].cbArgs = Fetched(t)

\* C5, its case: the callback has been invoked for a job whose status is the
\* one the table already held.
C5_Witness ==
    \E t \in Threads :
        /\ thr[t].pc = "updinfo"
        /\ ~thr[t].gone
        /\ ~thr[t].changed
        /\ thr[t].cbArgs = Fetched(t)

\* C6: a failure while handling one job (a query that raises, a callback
\* that raises) is swallowed: the loop ends only because it was told to
\* stop, every cycle takes a turn for every job of its snapshot, and the
\* failing job stays in the table, from which the next cycle takes its
\* snapshot.
C6_FailureSwallowed ==
    \A t \in Threads :
        /\ thr[t].pc = "dead" => thr[t].sawStop
        /\ thr[t].pc = "wait" => thr[t].nq = thr[t].nsnap
        /\ thr[t].lastFailed # NoJob => DictHas(current_statuses, thr[t].lastFailed)

\* C6, its case: in a cycle over two jobs the turn of the first has failed
\* and the second is being called back.
C6_Witness ==
    \E t \in Threads :
        /\ thr[t].pc = "callback"
        /\ thr[t].nsnap = 2
        /\ thr[t].nq = 2
        /\ thr[t].lastFailed \notin {NoJob, thr[t].job}

\* C7: once RemoveJob(j) has returned, j is absent from the tracked set and
\* stays absent until it is registered again, whatever the polling loop
\* does in between.
C7_RemovedStaysAbsent ==
    \A j \in removed : ~DictHas(current_statuses, j)

\* C8: StopMonitoring leaves both tables empty, also when a query is in
\* flight at the time of the call, and also when StartMonitoring is called
\* again at most one polling loop is ever live.
C8_StopIsFinal ==
    /\ stopped => (DOMAIN status_callbacks = {} /\ current_statuses = <<>>)
    /\ Cardinality({t \in Threads : Live(t)}) <= 1

\* C9: IsFinished(job) is true exactly when the job is tracked and the
\* status last fetched for it is COMPLETED or FAILED; it is false for a job
\* that is not tracked, for one not yet polled, and after StopMonitoring.
C9_IsFinishedExact ==
    \A j \in Jobs :
        is_finished(j) <=>
            (j \in DOMAIN status_callbacks /\ known[j] \in {"COMPLETED", "FAILED"})

(***************************************************************************)
(* JobManager.get_job_status: the reported status.                         *)
(***************************************************************************)
\* The scheduler-native state the answering query names is a cancelled or
\* timed-out terminal state.
CancelledOrTimeout ==
    IF squeue.rc = 0 /\ Strip(squeue.out) # <<>>
    THEN Keywords(Upper(Strip(squeue.out)[1])) \cap {"CANCELLED", "TIMEOUT"} # {}
    ELSE /\ sacct.rc = 0
         /\ Len(Strip(sacct.out)) = 1
         /\ Keywords(Upper(Strip(sacct.out)[1])) \cap {"CANCELLED", "TIMEOUT"} # {}

(***************************************************************************)
(* C10: every status the Scheduler Client reports is one of QUEUED,        *)
(* RUNNING, COMPLETED, FAILED, UNKNOWN, whichever query answered, and a    *)
(* cancelled or timed-out job is reported as FAILED.                       *)
(***************************************************************************)
C10_StatusInEnum ==
    reported # None =>
        /\ reported \in JobStatus
        /\ CancelledOrTimeout => reported = "FAILED"

C12_SecondCheckIdle ==
    \A l \in Files :
        DictHas(lt.handlers, l) =>
            LET w1 == check_for_updates(World, l)
            IN  check_for_updates(w1, l) = w1

\* The first of the two checks has something to deliver.
C12_Witness ==
    \E l \in Files :
        /\ DictHas(lt.handlers, l)
        /\ check_for_updates(World, l).starts[l] # starts[l]
        /\ starts[l] # <<>>

\* C13: when a file is shorter than it was at the handler's last check, the
\* next check reads from offset 0 and hands the callback all the file holds
\* now, and nothing when the file is empty.
C13_TruncatedRereadsAll ==
    \A l \in Files :
        (/\ DictHas(lt.handlers, l)
         /\ fs[l].exists
         /\ Len(fs[l].text) < DictGet(lt.handlers, l).seen_size) =>
            LET h == DictGet(lt.handlers, l)
                w1 == check_for_updates(World, l)
            IN  /\ read_start(h, fs[l]) = 0
                /\ new_content(h, fs[l]) = fs[l].text
                /\ w1.starts[l] = IF fs[l].text = <<>> THEN starts[l]
                                  ELSE Append(starts[l], 0)
                /\ DictGet(w1.lt.handlers, l).last_position = Len(fs[l].text)

\* A file that was cut to a shorter text that is not empty, its handler
\* having delivered the longer text before.
C13_Witness ==
    \E l \in Files :
        /\ DictHas(lt.handlers, l)
        /\ fs[l].text # <<>>
        /\ Len(fs[l].text) < DictGet(lt.handlers, l).seen_size
        /\ starts[l] # <<>>

Offset(u, j, s) ==
    IF <<s, j>> \in DOMAIN u.scroll_pos THEN u.scroll_pos[<<s, j>>] ELSE 0

\* The largest offset of the stream: max(0, totalLines - viewportHeight).
MaxOffset(u, j, s) == Max(0, total_lines(u, j, s) - max_lines_per_panel)

\* C15: a scroll-up by n >= 1 lines on the focused stream of the job on
\* display, the stream being PINNED, leaves the stream SCROLLED with an
\* offset that is smaller than before or 0, also when the stream has not
\* been rendered and has no text yet.
C15_ScrollUpLeavesPinned ==
    \A n \in {1, 10} :
        (/\ ui.current_job_id # NoJob
         /\ ~is_in_scroll_mode(ui, ui.current_job_id, ui.focused_panel)) =>
            LET u1 == scroll_up(ui, n)
            IN  /\ is_in_scroll_mode(u1, ui.current_job_id, ui.focused_panel)
                /\ \/ Offset(u1, ui.current_job_id, ui.focused_panel) <
                          Offset(ui, ui.current_job_id, ui.focused_panel)
                   \/ Offset(u1, ui.current_job_id, ui.focused_panel) = 0

\* C16: a scroll-down on a SCROLLED stream that brings the offset to the
\* largest one leaves the stream PINNED.
C16_ScrollDownToMaxPins ==
    [][\A n \in {1, 10} :
          (/\ ui.current_job_id # NoJob
           /\ is_in_scroll_mode(ui, ui.current_job_id, ui.focused_panel)
           /\ <<ui.focused_panel, ui.current_job_id>> \in DOMAIN ui.scroll_pos
           /\ ui' = scroll_down(ui, n)
           /\ Offset(ui', ui.current_job_id, ui.focused_panel) =
                  MaxOffset(ui', ui.current_job_id, ui.focused_panel)) =>
              ~is_in_scroll_mode(ui', ui.current_job_id, ui.focused_panel)]_vars

\* C17: scroll-to-bottom, and leaving scroll mode with its key, each take
\* the focused stream of the job on display from SCROLLED to PINNED with
\* the offset max(0, totalLines - viewportHeight); a stream that no scroll
\* mode was ever recorded for is PINNED.
C17_BottomAndExitPin ==
    /\ (/\ ui.current_job_id # NoJob
        /\ is_in_scroll_mode(ui, ui.current_job_id, ui.focused_panel)) =>
           \A u1 \in {scroll_to_bottom(ui),
                      exit_scroll_mode(ui, ui.current_job_id, ui.focused_panel)} :
               /\ ~is_in_scroll_mode(u1, ui.current_job_id, ui.focused_panel)
               /\ Offset(u1, ui.current_job_id, ui.focused_panel) =
                      MaxOffset(ui, ui.current_job_id, ui.focused_panel)
    /\ \A j \in Jobs, s \in Streams :
           <<s, j>> \notin DOMAIN ui.scroll_mode => ~is_in_scroll_mode(ui, j, s)

\* The focused stream of the job on display is SCROLLED above its largest
\* offset.
C17_Witness ==
    /\ ui.current_job_id # NoJob
    /\ is_in_scroll_mode(ui, ui.current_job_id, ui.focused_panel)
    /\ Offset(ui, ui.current_job_id, ui.focused_panel) <
           MaxOffset(ui, ui.current_job_id, ui.focused_panel)

\* C18: an append to a stream that is SCROLLED leaves the stream SCROLLED
\* at the same offset, and its window starts at the same line as before:
\* the same index, and the same text when that line was complete.
C18_ScrolledStaysPut ==
    \A j \in Jobs, s \in Streams :
        (is_in_scroll_mode(ui, j, s) /\ <<s, j>> \in DOMAIN ui.scroll_pos) =>
            \A chunk \in LogChunks \cup FileChunks \cup {<<"a">>} :
                LET u1 == update_log(ui, j, s, chunk)
                    first == visible_window(ui, j, s).start
                IN  /\ is_in_scroll_mode(u1, j, s)
                    /\ Offset(u1, j, s) = Offset(ui, j, s)
                    /\ visible_window(u1, j, s).start = first
                    /\ first + 1 < total_lines(ui, j, s) =>
                           u1.lines[<<s, j>>][first + 1] = ui.lines[<<s, j>>][first + 1]

\* A stream SCROLLED above its largest offset, with more lines than a
\* panel shows.
C18_Witness ==
    \E j \in Jobs, s \in Streams :
        /\ is_in_scroll_mode(ui, j, s)
        /\ <<s, j>> \in DOMAIN ui.scroll_pos
        /\ total_lines(ui, j, s) > max_lines_per_panel
        /\ Offset(ui, j, s) < MaxOffset(ui, j, s)

(***************************************************************************)
(* MonitorUI: lines and window.                                            *)
(***************************************************************************)
\* The texts of a sequence, one after the other.
RECURSIVE Concat(_)
Concat(chunks) ==
    IF chunks = <<>> THEN <<>> ELSE Head(chunks) \o Concat(Tail(chunks))

\* C19: the lines of a stream after any sequence of appends are the split
\* at the newlines of all the text appended, however it was cut into the
\* appends.
C19_LinesOfConcat ==
    call.fn = "update_log" =>
        call.result.lines[<<"stdout", 1>>] = split(Concat(call.args))

\* Three appends, the first one ending in the middle of a line.
C19_Witness ==
    /\ call.fn = "update_log"
    /\ Len(call.args) = 3
    /\ call.args[1] = <<"a", "\n", "b">>
    /\ Len(call.result.lines[<<"stdout", 1>>]) > 2

\* C20: for lines that are not empty the window is lines[o : o + height]
\* with o the offset held within [0, max(0, len - height)]; for no lines it
\* is the one line that says there is no output yet, never an empty view.
C20_WindowIsSlice ==
    call.fn = "get_visible_lines" =>
        LET lines == call.args[1]
            o == call.args[2]
            h == call.args[3]
            hi == IF Len(lines) > h THEN Len(lines) - h ELSE 0
            c == IF o < 0 THEN 0 ELSE IF o > hi THEN hi ELSE o
            size == IF Len(lines) - c < h THEN Len(lines) - c ELSE h
        IN  IF lines = <<>>
            THEN call.result.visible = <<NoOutputYet>>
            ELSE /\ call.result.visible = [i \in 1..size |-> lines[c + i]]
                 /\ call.result.start = c
                 /\ call.result.end = c + size
                 /\ call.result.visible # <<>>

\* The window of more lines than a panel shows, asked for at an offset
\* past the largest one.
C20_Witness ==
    /\ call.fn = "get_visible_lines"
    /\ Len(call.args[1]) > call.args[3]
    /\ call.args[2] > Len(call.args[1]) - call.args[3]
    /\ call.result.start = Len(call.args[1]) - call.args[3]

(***************************************************************************)
(* MonitorUI: focus, selection and what the keys leave alone.              *)
(***************************************************************************)
\* The dashboards the scroll keys give from u: scroll-up and scroll-down
\* by a line or a page, top, bottom, and leaving scroll mode (cli.py 384-391).
ScrollResults(u) ==
    {scroll_up(u, n) : n \in {1, 10}} \cup {scroll_down(u, n) : n \in {1, 10}}
        \cup {scroll_to_top(u), scroll_to_bottom(u)}
        \cup (IF u.current_job_id # NoJob
              THEN {exit_scroll_mode(u, u.current_job_id, u.focused_panel)}
              ELSE {})

\* Offset and scroll mode of every stream but the one of key k are in u1
\* what they are in u.
SameButFor(u, u1, k) ==
    /\ DOMAIN u1.scroll_pos \ {k} = DOMAIN u.scroll_pos \ {k}
    /\ DOMAIN u1.scroll_mode \ {k} = DOMAIN u.scroll_mode \ {k}
    /\ \A x \in DOMAIN u.scroll_pos \ {k} : u1.scroll_pos[x] = u.scroll_pos[x]
    /\ \A x \in DOMAIN u.scroll_mode \ {k} : u1.scroll_mode[x] = u.scroll_mode[x]

\* C21: the focus is on stdout or on stderr, switch_focus moves it to the
\* other one and twice back; and every scroll key changes at most the
\* offset and the scroll mode of the focused stream of the job on display.
C21_ScrollKeysAreLocal ==
    /\ ui.focused_panel \in Streams
    /\ switch_focus(ui).focused_panel \in Streams \ {ui.focused_panel}
    /\ switch_focus(switch_focus(ui)) = ui
    /\ \A u1 \in ScrollResults(ui) :
           /\ SameButFor(ui, u1, <<ui.focused_panel, ui.current_job_id>>)
           /\ u1.focused_panel = ui.focused_panel
           /\ u1.current_job_id = ui.current_job_id
           /\ u1.job_data = ui.job_data
           /\ u1.log_data = ui.log_data
           /\ u1.lines = ui.lines

\* The job on display can be scrolled, its other stream is SCROLLED and so
\* is a stream of another job.
C21_Witness ==
    /\ ui.current_job_id # NoJob
    /\ <<ui.focused_panel, ui.current_job_id>> \in DOMAIN ui.scroll_pos
    /\ \E s \in Streams \ {ui.focused_panel} : is_in_scroll_mode(ui, ui.current_job_id, s)
    /\ \E j \in Jobs \ {ui.current_job_id}, s \in Streams : is_in_scroll_mode(ui, j, s)

\* switch_to_next_job n times.
RECURSIVE NextJobTimes(_, _)
NextJobTimes(u, n) ==
    IF n = 0 THEN u ELSE NextJobTimes(switch_to_next_job(u), n - 1)

C23_RemoveSelectsAnother ==
    ui.current_job_id \in Tracked(ui) =>
        LET j == ui.current_job_id
            u1 == select_after_remove(remove_job(ui, j), j)
        IN  /\ j \notin Tracked(u1)
            /\ Tracked(u1) = Tracked(ui) \ {j}
            /\ IF Tracked(ui) \ {j} # {}
               THEN u1.current_job_id \in Tracked(u1)
               ELSE u1.current_job_id = NoJob /\ u1.job_data = <<>>



\* Two jobs are tracked, one of them on display.
C23_Witness ==
    /\ ui.current_job_id \in Tracked(ui)
    /\ Cardinality(Tracked(ui)) = 2
    /\ ui.log_data # EmptyFn

\* What a discovery leaves as it was, whatever is visible and whatever the
\* first fetch answers: the jobs on the dashboard afterwards are the ones
\* before and the visible ones, each once; a job that was tracked keeps
\* its entry; the focused stream and the offset and mode of every stream
\* are the same.
DiscoverIsLocal(u, u1, visible) ==
    /\ Tracked(u1) = Tracked(u) \cup Range(visible)
    /\ Cardinality(Tracked(u1)) = Len(u1.job_data)
    /\ \A k \in Tracked(u) : DictGet(u1.job_data, k) = DictGet(u.job_data, k)
    /\ u1.focused_panel = u.focused_panel
    /\ \A k \in Jobs, p \in Streams :
        /\ Offset(u1, k, p) = Offset(u, k, p)
        /\ is_in_scroll_mode(u1, k, p) = is_in_scroll_mode(u, k, p)

\* C24 as stated: a discovery adds exactly the visible jobs that are not
\* tracked, none twice, and the job on display, the focused stream and every
\* scroll state are the same after it as before it.
C24_DiscoveryKeepsSelection ==
    \A visible \in DiscoverLists, ok \in BOOLEAN, a \in DiscoverAnswers :
        LET u1 == discover(ui, visible, ok, a)
        IN  /\ DiscoverIsLocal(ui, u1, visible)
            /\ u1.current_job_id = ui.current_job_id

\* C24: a discovery adds exactly the visible jobs that are not tracked, none
\* twice, and the focused stream and every scroll state are the same after
\* it as before it; the job on display is the same if there was one, and
\* with no job on display the first of the added jobs is put on display.
C24_DiscoveryKeepsSelectionIfAny ==
    \A visible \in DiscoverLists, ok \in BOOLEAN, a \in DiscoverAnswers :
        LET u1 == discover(ui, visible, ok, a)
            new == SelectSeq(visible, LAMBDA j : j \notin Tracked(ui))
        IN  /\ DiscoverIsLocal(ui, u1, visible)
            /\ ui.current_job_id # NoJob => u1.current_job_id = ui.current_job_id
            /\ ui.current_job_id = NoJob /\ new # <<>> => u1.current_job_id = new[1]
            /\ ui.current_job_id = NoJob /\ new = <<>> => u1.current_job_id = NoJob

\* A discovery has added a job, and another job is on display with a
\* stream scrolled back.
C24_Witness ==
    /\ \E j \in DOMAIN status_callbacks : j \in Tracked(ui) /\ j # ui.current_job_id
    /\ ui.current_job_id \in Tracked(ui)
    /\ \E p \in Streams : is_in_scroll_mode(ui, ui.current_job_id, p)

\* C25: when the session has ended, on whichever path, the terminal is in
\* the mode it had before the keyboard thread changed it.
C25_TerminalRestored ==
    session.main = "exited" => session.tty = "normal"

\* The session is over: the render loop has been left and the process has
\* ended, with the poll loop told to end, no observer and no handler left.
SessionOver ==
    /\ session.main = "exited"
    /\ ~sm_monitoring
    /\ sm_stop_event
    /\ lt.observers = {}
    /\ lt.handlers = <<>>

\* C26: after a signal, or after the key that ends the session has been read
\* by the keyboard thread, the session is over in the end: the render loop
\* is left, and the poll loop, the observers and the keyboard thread end.
C26_ShutdownStopsAll ==
    (session.cause \in {"signal", "key"}) ~> SessionOver

\* C27: a status callback that names the path of a stream that is registered
\* with the tailer leaves the reader of the stream as it is: the handler
\* with its remembered offset is the same after the callback, and no text
\* is delivered to the dashboard.
C27_CallbackKeepsReader ==
    \A j \in Jobs, a \in SchedulerAnswers :
        (a.info.stdout_path # "" /\ DictHas(lt.handlers, <<"stdout", j>>)) =>
            LET w1 == status_callback(
                          World, j,
                          get_job_status(a.squeue.rc, a.squeue.out, a.sacct.rc, a.sacct.out),
                          a.info)
            IN  /\ w1.lt.handlers = lt.handlers
                /\ w1.ui.log_data = ui.log_data

\* C29: a job whose removal has completed is absent from the dashboard's job
\* table, from the StatusMonitor's tracked jobs and callbacks and from the
\* tailer's registrations, whatever the poll loop was doing for the job when
\* it was removed.
C29_RemovedStaysAbsent ==
    \A j \in removed :
        /\ j \notin Tracked(ui)
        /\ ~DictHas(current_statuses, j)
        /\ j \notin DOMAIN status_callbacks
        /\ \A s \in Streams :
            /\ ~DictHas(lt.handlers, <<s, j>>)
            /\ <<s, j>> \notin lt.observers

\* C28: an append to a stream changes the offset and the scroll mode of no
\* other stream, of the same job or of another one, the job on display
\* included.
C28_AppendIsLocal ==
    \A j \in Jobs, s \in Streams, chunk \in LogChunks \cup FileChunks :
        LET u1 == update_log(ui, j, s, chunk)
        IN  \A k \in Jobs, p \in Streams :
                <<p, k>> # <<s, j>> =>
                    /\ Offset(u1, k, p) = Offset(ui, k, p)
                    /\ is_in_scroll_mode(u1, k, p) = is_in_scroll_mode(ui, k, p)

\* The text of a stream on the dashboard.
Buffer(u, l) == IF l[2] \in DOMAIN u.log_data THEN u.log_data[l[2]][l[1]] ELSE <<>>

\* The texts delivered for a stream, one after the other: every delivery is
\* the text of FileChunks.
RECURSIVE Delivered(_)
Delivered(n) ==
    IF n = 0 THEN <<>> ELSE Delivered(n - 1) \o (CHOOSE chunk \in FileChunks : TRUE)

\* C30: at every point the buffer of a stream is the concatenation of the
\* texts whose append has completed, and when no append is in progress the
\* lines of a stream that has received text are the split of its buffer.
C30_NoAppendLost ==
    \A l \in Labels :
        /\ Buffer(ui, l) = Delivered(Len(starts[l]))
        /\ ((\A k \in Labels : notif[k].pc = "idle") /\ starts[l] # <<>>) =>
               /\ l \in DOMAIN ui.lines
               /\ ui.lines[l] = split(Buffer(ui, l))

\* C31: while a log callback invoked by the poll loop is running or has just
\* returned inside _read_new_content, the poll thread does not hold the
\* tailer's lock.
C31_NoLockAcrossCallback ==
    poll.pc = "cb" => lt_lock = "free"

\* C32: a check of a registered file that does not exist leaves the
\* handler's position as it was and makes no callback.
C32_MissingFileUntouched ==
    \A l \in Files :
        (DictHas(lt.handlers, l) /\ ~fs[l].exists) =>
            LET w1 == check_for_updates(World, l)
            IN  /\ DictGet(w1.lt.handlers, l).last_position =
                       DictGet(lt.handlers, l).last_position
                /\ w1.starts = starts
                /\ w1.ui = ui

\* C33: a check of a registered file that is there and cannot be read
\* leaves the handler's position as it was and makes no callback; the poll
\* thread goes on with the other handlers of its cycle, and it ends only
\* when the tailer is stopped.
C33_UnreadableIsSkipped ==
    /\ \A l \in Files, at \in ReadFailures :
        (DictHas(lt.handlers, l) /\ fs[l].exists) =>
            LET w1 == check_fails(World, l, at)
            IN  /\ DictGet(w1.lt.handlers, l).last_position =
                       DictGet(lt.handlers, l).last_position
                /\ w1.starts = starts
                /\ w1.ui = ui
    /\ poll.pc = "dead" => (~lt.monitoring \/ lt.stop_event)

\* C34: a job the controller has registered with the StatusMonitor, at the
\* start or in a discovery, is polled in the end and its status callback is
\* called, also when the controller was started on no job.
C34_DiscoveredIsPolled ==
    \A j \in Jobs :
        (j \in DOMAIN status_callbacks) ~>
            (\E t \in Threads : thr[t].pc = "callback" /\ thr[t].job = j)

\* C35: the job on display having been removed by the operator, a discovery
\* that follows does not add it again, whatever the scheduler lists as
\* visible.
C35_RemovedStaysRemoved ==
    \A visible \in DiscoverLists, ok \in BOOLEAN, a \in DiscoverAnswers :
        ui.current_job_id \in Tracked(ui) =>
            LET j == ui.current_job_id
                u1 == select_after_remove(remove_job(ui, j), j)
            IN  j \notin Tracked(discover(u1, visible, ok, a))

\* C36: every offset the dashboard has stored for a stream is at least 0
\* and at most max(0, totalLines - viewportHeight) of that stream.
C36_OffsetInRange ==
    \A k \in DOMAIN ui.scroll_pos :
        /\ ui.scroll_pos[k] >= 0
        /\ ui.scroll_pos[k] <= MaxOffset(ui, k[2], k[1])

\* A stream longer than the viewport has been scrolled by the operator and
\* stands at the largest offset its length allows.
C36_Witness ==
    \E k \in DOMAIN ui.scroll_pos :
        /\ is_in_scroll_mode(ui, k[2], k[1])
        /\ ui.scroll_pos[k] > 0
        /\ ui.scroll_pos[k] = MaxOffset(ui, k[2], k[1])

\* The job on display is a job of the job table, and there is none only
\* when the job table is empty.
SelectionValid(u) ==
    IF u.current_job_id = NoJob
    THEN Tracked(u) = {}
    ELSE u.current_job_id \in Tracked(u)

\* C37: after every completed action on the dashboard (status update, added
\* job, removal, next job, previous job) and after a discovery that follows
\* it, the job on display is none or a job of the job table, and it is none
\* only when the job table is empty.
C37_SelectionValid ==
    /\ SelectionValid(ui)
    /\ \A visible \in DiscoverLists, ok \in BOOLEAN, a \in DiscoverAnswers :
        SelectionValid(discover(ui, visible, ok, a))

\* A job is on display, a job with a smaller id is not in the job table
\* (it was removed, or never added), and a discovery would add to the table.
C37_Witness ==
    /\ ui.current_job_id \in Tracked(ui)
    /\ \E j \in Jobs : j \notin Tracked(ui) /\ j < ui.current_job_id
    /\ \E visible \in DiscoverLists, ok \in BOOLEAN, a \in DiscoverAnswers :
        Tracked(discover(ui, visible, ok, a)) # Tracked(ui)

\* C38: scroll_to_top on the focused stream of the job on display leaves
\* that stream at offset 0 and in scroll mode, and the offset is still 0
\* after each append to that stream that follows.
C38_TopStaysAtTop ==
    ui.current_job_id # NoJob =>
        LET j == ui.current_job_id
            p == ui.focused_panel
            u1 == scroll_to_top(ui)
        IN  /\ Offset(u1, j, p) = 0
            /\ is_in_scroll_mode(u1, j, p)
            /\ \A c1 \in LogChunks, c2 \in LogChunks :
                /\ Offset(update_log(u1, j, p, c1), j, p) = 0
                /\ Offset(update_log(update_log(u1, j, p, c1), j, p, c2), j, p) = 0

\* The main thread is at `with self.lock` of LogTailer.stop_monitoring
\* (log_tailer.py 191).
MainWaitsForLock == session.main = "join" /\ api = "ready"

\* C39: no task waits for ever: a task that waits for the tailer's lock
\* waits for another task, one that goes on and gives the lock back, never
\* for a frame of its own that cannot go on.
C39_NoTaskWaitsForever ==
    MainWaitsForLock => lt_lock # "main"

\* The actions of the keys typed, one for each recognised key, in their
\* order.
RECURSIVE typed_actions(_)
typed_actions(t) ==
    IF t = <<>> THEN <<>>
    ELSE Head(t).key.action \o typed_actions(Tail(t))

\* C40: the handlers called for what is typed are the actions of the
\* recognised keys and complete escape sequences in it, one each, in their
\* order, whether the keys come with pauses or back to back; the other
\* keys and sequences call no handler.
C40_OneActionPerKey ==
    call.fn = "keyboard_input" => call.result = typed_actions(call.args)

=============================================================================
